---- MODULE Spec2Model ----
(***************************************************************************)
(* Rule engines of zayat-eslint-rules as state machines over one traversal *)
(* session each.  The host (ESLint) walks a syntax tree and calls the      *)
(* rule's callbacks in visit order; a session owns its collections and     *)
(* its list of emitted diagnostics (context.report).                       *)
(*                                                                         *)
(*   SpecOCPF  one-component-per-file                                      *)
(*   SpecJECM  jsx-element-component-mismatch                              *)
(*   SpecSvg   svg-currentcolor                                            *)
(*   SpecBool  boolean-naming-convention                                   *)
(***************************************************************************)
EXTENDS Integers, Sequences, FiniteSets, TLC

VARIABLES
    ast,                  \* the nodes the host has handed to the callbacks, in visit order
                          \* (SpecSvg: the whole JSX tree, fixed before the walk)
    pc,                   \* "walk" while callbacks run, "done" after Program:exit
    reports,              \* context.report calls of the session, in emission order
    components,           \* one-component-per-file: IComponentInfo[]
    compoundChildren,     \* one-component-per-file: Set<string>
    pending,              \* jsx-element-component-mismatch: child nodes the host visits next
    componentPropValues,  \* jsx-element-component-mismatch: name -> prop -> 'jsx' | 'component'
    componentPropUsages,  \* jsx-element-component-mismatch: function node -> prop -> usage
    multiColorCache,      \* icon rules: module-level WeakMap<JSXElement, boolean>
    visited,              \* tree walks: number of nodes of the tree already visited
    options,              \* boolean-naming-convention: context.options[0]
    parserServices,       \* boolean-naming-convention: are type services available
    explicitAnnotationCache, \* type-helpers: module-level WeakMap<Node, boolean>
    typeCheckCache,       \* type-helpers: module-level WeakMap<Node, boolean>
    reactNodeTypeCache,   \* type-helpers: module-level WeakMap<Node, boolean>
    reactNodeAnnotationCache, \* type-helpers: module-level WeakMap<Node, boolean>
    calls,                \* the calls made so far, with what they returned or raised
    exportNode,           \* memoized-export: the pending default export (index in ast, 0 = null)
    svgNode,              \* memoized-export: the svg element seen last (index in ast, 0 = null)
    rule,                 \* the rule of the session, where a specification runs one of several
    imports,              \* form-config-extraction: Map<string, IImportInfo> of the session
    propsWithJSXValues,   \* react-node-prop-naming: Set<string> of the session
    svgCount              \* single-svg-per-file: the counter of the session

ocpfState == <<components, compoundChildren>>
jecmState == <<pending, componentPropValues, componentPropUsages>>
svgState  == <<multiColorCache, visited>>
boolState == <<options, parserServices, explicitAnnotationCache, typeCheckCache>>
inferState == <<reactNodeTypeCache, reactNodeAnnotationCache, calls>>
memoState == <<exportNode, svgNode>>
hostState == <<rule>>
formState == <<imports>>
namingState == <<propsWithJSXValues>>
singleSvgState == <<svgCount>>
vars == <<ast, pc, reports, ocpfState, jecmState, svgState, boolState, inferState, memoState, hostState, formState, namingState, singleSvgState>>

\* Value of a variable that the rule under a specification does not own.
Unused == <<>>

\* The collections of the rules a specification does not run are never created.
OcpfIdle == components = Unused /\ compoundChildren = Unused
JecmIdle == pending = Unused /\ componentPropValues = Unused /\ componentPropUsages = Unused
SvgIdle  == multiColorCache = Unused /\ visited = Unused
BoolIdle ==
    /\ options = Unused
    /\ parserServices = Unused
    /\ explicitAnnotationCache = Unused
    /\ typeCheckCache = Unused

InferIdle ==
    /\ reactNodeTypeCache = Unused
    /\ reactNodeAnnotationCache = Unused
    /\ calls = Unused

MemoIdle == exportNode = Unused /\ svgNode = Unused

HostIdle == rule = Unused

FormIdle == imports = Unused

NamingIdle == propsWithJSXValues = Unused

SingleSvgIdle == svgCount = Unused

\* JavaScript's null / undefined for an optional field.
Null == "null"

\* null / undefined where a node is expected.
NullNode == [type |-> "null"]

RECURSIVE SelectSeq2(_, _)
\* Array.prototype.filter with a predicate given as the set of kept elements' indices.
SelectSeq2(s, keep) ==
    IF s = <<>> THEN <<>>
    ELSE LET n == Len(s)
             front == SelectSeq2(SubSeq(s, 1, n - 1), keep)
         IN IF n \in keep THEN Append(front, s[n]) ELSE front

Range(s) == {s[i] : i \in 1..Len(s)}

(***************************************************************************)
(* one-component-per-file                                                  *)
(***************************************************************************)

\* Longest file (number of visited statements) of a one-component-per-file session.
MaxStmts == 4

ComponentNames == {"Main", "Sub"}

\* Declarations the host can hand to FunctionDeclaration / VariableDeclarator /
\* ClassDeclaration.  id is the identifier name, or Null (anonymous function or
\* class, destructuring pattern); returns is what the body evaluates to.
DeclNodes ==
    [type : {"FunctionDeclaration", "VariableDeclarator", "ClassDeclaration"},
     id : ComponentNames \cup {Null},
     returns : {"jsx"}]
    \cup
    [type : {"FunctionDeclaration"}, id : ComponentNames, returns : {"other"}]

\* Assignments the host can hand to AssignmentExpression: left is the shape of the
\* target, right the identifier name or Null for any other expression.
AssignNodes ==
    [type : {"AssignmentExpression"},
     left : {[type |-> "MemberExpression", object |-> "Identifier", property |-> "Identifier"]},
     right : ComponentNames \cup {Null}]
    \cup
    [type : {"AssignmentExpression"},
     left : {[type |-> "MemberExpression", object |-> "ThisExpression", property |-> "Identifier"],
             [type |-> "MemberExpression", object |-> "Identifier", property |-> "Literal"],
             [type |-> "Identifier", object |-> Null, property |-> Null]},
     right : {"Sub"}]

\* isReactComponent of utils/ast-helpers: the declaration returns JSX.
isReactComponent(node) == node.returns = "jsx"

\* node.id?.name || "anonymous"
componentName(node) == IF node.id = Null THEN "anonymous" ELSE node.id

InitOCPF ==
    /\ ast = <<>>
    /\ pc = "walk"
    /\ reports = <<>>
    /\ components = <<>>
    /\ compoundChildren = {}
    /\ JecmIdle
    /\ SvgIdle
    /\ BoolIdle
    /\ InferIdle
    /\ MemoIdle
    /\ HostIdle /\ FormIdle /\ NamingIdle /\ SingleSvgIdle

OcpfOthers == <<jecmState, svgState, boolState, inferState, memoState, hostState, formState, namingState, singleSvgState>>

\* A slip that keeps only the name attached last.
OcpfAssignmentForgets(node) ==
    /\ pc = "walk"
    /\ Len(ast) < MaxStmts
    /\ ast' = Append(ast, node)
    /\ compoundChildren' =
         IF /\ node.left.type = "MemberExpression"
            /\ node.left.object = "Identifier"
            /\ node.left.property = "Identifier"
            /\ node.right # Null
         THEN {node.right}
         ELSE compoundChildren
    /\ UNCHANGED <<pc, reports, components, OcpfOthers>>

OcpfAssignmentExpression(node) ==
    /\ pc = "walk"
    /\ Len(ast) < MaxStmts
    /\ ast' = Append(ast, node)
    /\ compoundChildren' =
         IF /\ node.left.type = "MemberExpression"
            /\ node.left.object = "Identifier"
            /\ node.left.property = "Identifier"
            /\ node.right # Null
         THEN compoundChildren \cup {node.right}
         ELSE compoundChildren
    /\ UNCHANGED <<pc, reports, components, OcpfOthers>>

\* A slip that records every declaration, component or not.
OcpfRecordAnyDeclaration(node) ==
    /\ pc = "walk"
    /\ Len(ast) < MaxStmts
    /\ ast' = Append(ast, node)
    /\ components' = Append(components,
                            [name |-> componentName(node), node |-> Len(ast) + 1,
                             isCompoundChild |-> FALSE])
    /\ UNCHANGED <<pc, reports, compoundChildren, OcpfOthers>>

\* The body shared by FunctionDeclaration, VariableDeclarator and ClassDeclaration.
OcpfRecordComponent(node) ==
    /\ pc = "walk"
    /\ Len(ast) < MaxStmts
    /\ ast' = Append(ast, node)
    /\ components' =
         IF isReactComponent(node)
         THEN Append(components,
                     [name |-> componentName(node), node |-> Len(ast) + 1,
                      isCompoundChild |-> FALSE])
         ELSE components
    /\ UNCHANGED <<pc, reports, compoundChildren, OcpfOthers>>

OcpfFunctionDeclaration(node) ==
    node.type = "FunctionDeclaration" /\ OcpfRecordComponent(node)

OcpfVariableDeclarator(node) ==
    node.type = "VariableDeclarator" /\ OcpfRecordComponent(node)

OcpfClassDeclaration(node) ==
    node.type = "ClassDeclaration" /\ OcpfRecordComponent(node)

\* A slip that never marks a recorded component as a compound child.
markCompoundChildrenNever(comps, children) == comps

\* components.forEach(...) of Program:exit: mark the compound children.
markCompoundChildren(comps, children) ==
    [i \in 1..Len(comps) |->
        IF comps[i].name \in children
        THEN [comps[i] EXCEPT !.isCompoundChild = TRUE]
        ELSE comps[i]]

\* A slip that lets the compound children through the filter.
allRecordedComponents(comps) == comps

\* components.filter(c => !c.isCompoundChild)
nonCompoundComponents(comps) ==
    SelectSeq2(comps, {i \in 1..Len(comps) : ~comps[i].isCompoundChild})

\* nonCompoundComponents.length > 1
hasMultipleComponents(nc) == Len(nc) > 1

\* A slip that anchors the diagnostic at the first surviving component.
reportAnchorFirst(nc) == nc[1].node

\* node: nonCompoundComponents[1].node
reportAnchor(nc) == nc[2].node

\* names.join(separator): the text as the sequence of its pieces.
RECURSIVE joinedWith(_, _)
joinedWith(names, separator) ==
    IF names = <<>> THEN <<>>
    ELSE IF Len(names) = 1 THEN <<names[1]>>
    ELSE <<names[1], separator>> \o joinedWith(Tail(names), separator)

OcpfProgramExit ==
    /\ pc = "walk"
    /\ pc' = "done"
    /\ components' = markCompoundChildren(components, compoundChildren)
    /\ LET nc == nonCompoundComponents(components')
       IN reports' =
            IF hasMultipleComponents(nc)
            THEN Append(reports,
                        [node |-> reportAnchor(nc),
                         messageId |-> "multipleComponents",
                         count |-> Len(nc),
                         componentNames |->
                            joinedWith([i \in 1..Len(nc) |-> nc[i].name], ", ")])
            ELSE reports
    /\ UNCHANGED <<ast, compoundChildren, OcpfOthers>>

NextOCPF ==
    \/ \E node \in AssignNodes : OcpfAssignmentExpression(node)
    \/ \E node \in DeclNodes : OcpfFunctionDeclaration(node)
    \/ \E node \in DeclNodes : OcpfVariableDeclarator(node)
    \/ \E node \in DeclNodes : OcpfClassDeclaration(node)
    \/ OcpfProgramExit

SpecOCPF == InitOCPF /\ [][NextOCPF]_vars

\* ---- what the visited file says, read off the nodes themselves ----

DeclTypes == {"FunctionDeclaration", "VariableDeclarator", "ClassDeclaration"}

\* Positions (in visit order) of the declarations that qualify as UI components.
QualifyingDecls ==
    {i \in 1..Len(ast) : ast[i].type \in DeclTypes /\ ast[i].returns = "jsx"}

DeclName(i) == IF ast[i].id = Null THEN "anonymous" ELSE ast[i].id

\* Names attached by an assignment Identifier.Identifier = Identifier.
AttachedNames ==
    {ast[i].right : i \in {j \in 1..Len(ast) :
        /\ ast[j].type = "AssignmentExpression"
        /\ ast[j].left = [type |-> "MemberExpression", object |-> "Identifier",
                          property |-> "Identifier"]
        /\ ast[j].right # Null}}

\* The k-th smallest element of a finite set of numbers.
RECURSIVE KthOf(_, _)
KthOf(S, k) ==
    LET m == CHOOSE x \in S : \A y \in S : x <= y
    IN IF k = 1 THEN m ELSE KthOf(S \ {m}, k - 1)

\* C1: with N >= 2 qualifying declarations, none of whose names is attached by an
\* assignment X.Y = Y, exactly one multipleComponents diagnostic is emitted; it is
\* emitted at traversal end (none exists during the walk), it is anchored at the
\* second qualifying declaration in visit order, and its count is N.
C1_OneDiagnosticAtSecond ==
    /\ pc = "walk" => reports = <<>>
    /\ (/\ pc = "done"
        /\ Cardinality(QualifyingDecls) >= 2
        /\ \A i \in QualifyingDecls : DeclName(i) \notin AttachedNames)
       => /\ Len(reports) = 1
          /\ reports[1].messageId = "multipleComponents"
          /\ reports[1].node = KthOf(QualifyingDecls, 2)
          /\ reports[1].count = Cardinality(QualifyingDecls)

\* Two qualifying declarations behind an assignment that attaches neither: reported once, at the third statement.
C1_Witness ==
    /\ pc = "done"
    /\ Len(ast) = 3
    /\ ast[1].type = "AssignmentExpression"
    /\ QualifyingDecls = {2, 3}
    /\ \A i \in QualifyingDecls : DeclName(i) \notin AttachedNames
    /\ Len(reports) = 1
    /\ reports[1].node = 3
    /\ reports[1].count = 2

\* C2: with exactly one qualifying declaration and no compound-child assignment
\* (and any number of non-component functions) no diagnostic is emitted.
C2_SingleComponentSilent ==
    (/\ Cardinality(QualifyingDecls) = 1
     /\ AttachedNames = {})
    => reports = <<>>

C2_Witness ==
    /\ pc = "done"
    /\ Len(ast) = 3
    /\ Cardinality(QualifyingDecls) = 1
    /\ AttachedNames = {}
    /\ \E i \in 1..3 : ast[i].type = "FunctionDeclaration" /\ ast[i].returns = "other"
    /\ reports = <<>>

\* The qualifying declarations that survive the compound-child exclusion.
Survivors == {i \in QualifyingDecls : DeclName(i) \notin AttachedNames}

\* C3: a component whose name is the right-hand identifier of an assignment
\* Identifier.Identifier = Identifier is left out of the duplicate count wherever
\* the assignment is visited, before or after the component's declaration: at
\* traversal end a diagnostic exists iff more than one declaration survives, its
\* count is the number of survivors and it names no attached component; so Main
\* and Sub with Main.Sub = Sub give no diagnostic in any visit order.
C3_CompoundChildExcludedAnyOrder ==
    pc = "done" =>
        /\ (Cardinality(Survivors) > 1) = (reports # <<>>)
        /\ \A k \in 1..Len(reports) :
              /\ reports[k].count = Cardinality(Survivors)
              /\ Range(reports[k].componentNames) \cap AttachedNames = {}
        /\ (/\ Len(ast) = 3
            /\ Cardinality(QualifyingDecls) = 2
            /\ {DeclName(i) : i \in QualifyingDecls} = {"Main", "Sub"}
            /\ AttachedNames = {"Sub"})
           => reports = <<>>

\* Main.Sub = Sub visited before both declarations, Sub declared last.
C3_Witness ==
    /\ pc = "done"
    /\ Len(ast) = 3
    /\ ast[1].type = "AssignmentExpression"
    /\ AttachedNames = {"Sub"}
    /\ QualifyingDecls = {2, 3}
    /\ DeclName(2) = "Main"
    /\ DeclName(3) = "Sub"
    /\ reports = <<>>

(***************************************************************************)
(* jsx-element-component-mismatch                                          *)
(***************************************************************************)

\* Most JSX nodes (elements and child-position expression containers) the host hands
\* over in one jsx-element-component-mismatch session; their own opening elements,
\* attribute values and nested elements are visited on top of these.
MaxJsxNodes == 3

\* --- an insertion-ordered Map as a sequence of [key, value] entries ---

MapHas(m, k) == \E i \in 1..Len(m) : m[i].key = k

MapGet(m, k) == m[CHOOSE i \in 1..Len(m) : m[i].key = k].value

\* Map.prototype.set: a present key keeps its place, a new one goes last.
MapSet(m, k, v) ==
    IF MapHas(m, k)
    THEN [i \in 1..Len(m) |-> IF m[i].key = k THEN [key |-> k, value |-> v] ELSE m[i]]
    ELSE Append(m, [key |-> k, value |-> v])

\* --- the function nodes of the file ---

ObjectPattern(names) ==
    [type |-> "ObjectPattern",
     properties |-> [i \in 1..Len(names) |->
                        [type |-> "Property", key |-> [type |-> "Identifier", name |-> names[i]]]]]

VarDeclAncestor(name) ==
    [type |-> "VariableDeclarator", id |-> [type |-> "Identifier", name |-> name]]

\* const TestComponent = ({ TestProp, IconProp }) => ...
FnArrow ==
    [key |-> "FnArrow", type |-> "ArrowFunctionExpression", id |-> NullNode,
     params |-> <<ObjectPattern(<<"TestProp", "IconProp">>)>>,
     parents |-> <<VarDeclAncestor("TestComponent")>>]

\* function TestComponent({ TestProp }) { ... }  (another scope of the same file)
FnDecl ==
    [key |-> "FnDecl", type |-> "FunctionDeclaration", id |-> [type |-> "Identifier", name |-> "TestComponent"],
     params |-> <<ObjectPattern(<<"TestProp">>)>>,
     parents |-> <<[type |-> "Program", id |-> NullNode]>>]

\* export default ({ TestProp }) => ...   (no name to resolve)
FnAnonymous ==
    [key |-> "FnAnonymous", type |-> "ArrowFunctionExpression", id |-> NullNode,
     params |-> <<ObjectPattern(<<"TestProp">>)>>,
     parents |-> <<[type |-> "ExportDefaultDeclaration", id |-> NullNode], [type |-> "Program", id |-> NullNode]>>]

\* const Test = () => ...   (the caller: no destructured props)
FnCaller ==
    [key |-> "FnCaller", type |-> "ArrowFunctionExpression", id |-> NullNode,
     params |-> <<>>,
     parents |-> <<VarDeclAncestor("Test")>>]

\* function TestComponent(props) { const [x] = use(function (a, { TestProp }) { ... }) }
FnInner ==
    [key |-> "FnInner", type |-> "FunctionExpression", id |-> NullNode,
     params |-> <<[type |-> "Identifier", properties |-> <<>>], ObjectPattern(<<"TestProp">>)>>,
     parents |-> <<[type |-> "CallExpression", id |-> NullNode],
                   [type |-> "VariableDeclarator", id |-> [type |-> "ArrayPattern", name |-> Null]],
                   [type |-> "FunctionDeclaration", id |-> [type |-> "Identifier", name |-> "TestComponent"]]>>]

FunctionNodes == {FnArrow, FnDecl, FnAnonymous, FnCaller, FnInner}

FunctionTypes == {"FunctionDeclaration", "ArrowFunctionExpression", "FunctionExpression"}

\* --- the JSX nodes of the file ---

Container(exprType, name) ==
    [type |-> "JSXExpressionContainer", expression |-> [type |-> exprType, name |-> name]]

Attr(name, value) ==
    [type |-> "JSXAttribute", name |-> [type |-> "JSXIdentifier", name |-> name], value |-> value]

SpreadAttr == [type |-> "JSXSpreadAttribute", name |-> NullNode, value |-> NullNode]

Element(tagType, tag, attrs, parents) ==
    [type |-> "JSXElement",
     openingElement |-> [type |-> "JSXOpeningElement",
                         name |-> [type |-> tagType, name |-> tag],
                         attributes |-> attrs],
     parents |-> parents]

\* Ancestors of a JSX node written directly in the body of function f.
Inside(f) == <<[type |-> "ReturnStatement"], f>> \o f.parents

TopLevel == <<[type |-> "Program", id |-> NullNode]>>

PassAttributes ==
    { <<Attr("TestProp", Container("JSXElement", "Icon"))>>,
      <<Attr("TestProp", Container("Identifier", "Icon"))>>,
      <<Attr("TestProp", [type |-> "Literal"])>>,
      <<Attr("IconProp", Container("JSXElement", "Icon")),
        Attr("TestProp", Container("MemberExpression", Null))>>,
      <<SpreadAttr, Attr("TestProp", Container("JSXFragment", Null))>> }

ElementNodes ==
    \* instantiation sites <TestComponent ... />
    {Element("JSXIdentifier", "TestComponent", a, Inside(FnCaller)) : a \in PassAttributes}
    \cup
    {Element("JSXMemberExpression", Null,
             <<Attr("TestProp", Container("JSXElement", "Icon"))>>, Inside(FnCaller)),
     \* a prop handed on: <Test TestProp={TestProp} /> inside TestComponent
     Element("JSXIdentifier", "Test",
             <<Attr("TestProp", Container("Identifier", "TestProp"))>>, Inside(FnArrow)),
     Element("JSXIdentifier", "IconProp", <<>>, Inside(FnArrow)),
     Element("JSXIdentifier", "TestProp", <<>>, TopLevel)}
    \cup
    \* usage sites <TestProp />
    {Element("JSXIdentifier", "TestProp", <<>>, Inside(f)) : f \in FunctionNodes}

ContainerNodes ==
    {[type |-> "JSXExpressionContainer",
      expression |-> [type |-> "Identifier", name |-> "TestProp"],
      parents |-> Inside(f)] : f \in {FnArrow, FnDecl, FnAnonymous}}
    \cup
    {[type |-> "JSXExpressionContainer",
      expression |-> [type |-> "Identifier", name |-> "TestProp"],
      parents |-> TopLevel],
     [type |-> "JSXExpressionContainer",
      expression |-> [type |-> "Identifier", name |-> "IconProp"],
      parents |-> Inside(FnArrow)],
     [type |-> "JSXExpressionContainer",
      expression |-> [type |-> "MemberExpression", name |-> Null],
      parents |-> Inside(FnArrow)]}

\* --- helpers of utils/jsx-helpers ---

validateJSXAttributeStructure(attribute) ==
    attribute.name # NullNode /\ attribute.name.type = "JSXIdentifier"

getAttributeName(attribute) ==
    IF ~validateJSXAttributeStructure(attribute) THEN Null ELSE attribute.name.name

isJSXElementValue(attribute) ==
    /\ validateJSXAttributeStructure(attribute)
    /\ attribute.value # NullNode
    /\ attribute.value.type = "JSXExpressionContainer"
    /\ attribute.value.expression.type # "JSXEmptyExpression"
    /\ attribute.value.expression.type \in {"JSXElement", "JSXFragment"}

isComponentReference(attribute) ==
    /\ validateJSXAttributeStructure(attribute)
    /\ attribute.value # NullNode
    /\ attribute.value.type = "JSXExpressionContainer"
    /\ attribute.value.expression.type # "JSXEmptyExpression"
    /\ attribute.value.expression.type \notin {"JSXElement", "JSXFragment"}
    /\ attribute.value.expression.type \in {"Identifier", "MemberExpression"}

\* --- helpers of the rule ---

getComponentName(node) ==
    IF node.name.type = "JSXIdentifier" THEN node.name.name ELSE Null

RECURSIVE firstFunction(_)
firstFunction(chain) ==
    IF chain = <<>> THEN NullNode
    ELSE IF Head(chain).type \in FunctionTypes THEN Head(chain)
    ELSE firstFunction(Tail(chain))

\* A JSX node is no function itself: the walk starts at its parent.
findContainingComponent(node) == firstFunction(node.parents)

RECURSIVE propertyKeys(_)
propertyKeys(properties) ==
    IF properties = <<>> THEN <<>>
    ELSE LET p == Head(properties)
         IN (IF p.type = "Property" /\ p.key.type = "Identifier" THEN <<p.key.name>> ELSE <<>>)
            \o propertyKeys(Tail(properties))

RECURSIVE paramProps(_)
paramProps(params) ==
    IF params = <<>> THEN <<>>
    ELSE (IF Head(params).type = "ObjectPattern"
          THEN propertyKeys(Head(params).properties) ELSE <<>>)
         \o paramProps(Tail(params))

getComponentProps(node) == paramProps(node.params)

\* The while (parent) loop of Program:exit.
RECURSIVE nameFromParents(_)
nameFromParents(chain) ==
    IF chain = <<>> THEN Null
    ELSE LET parent == Head(chain)
         IN IF parent.type = "VariableDeclarator" /\ parent.id.type = "Identifier"
            THEN parent.id.name
            ELSE IF parent.type = "FunctionDeclaration" /\ parent.id # NullNode
            THEN parent.id.name
            ELSE nameFromParents(Tail(chain))

resolveComponentName(component) ==
    IF component.type = "FunctionDeclaration" /\ component.id # NullNode
    THEN component.id.name
    ELSE IF component.type \in {"ArrowFunctionExpression", "FunctionExpression"}
    THEN nameFromParents(component.parents)
    ELSE Null

InitJECM ==
    /\ ast = <<>>
    /\ pc = "walk"
    /\ reports = <<>>
    /\ pending = <<>>
    /\ componentPropValues = <<>>
    /\ componentPropUsages = <<>>
    /\ OcpfIdle
    /\ SvgIdle
    /\ BoolIdle
    /\ InferIdle
    /\ MemoIdle
    /\ HostIdle /\ FormIdle /\ NamingIdle /\ SingleSvgIdle

JecmOthers == <<ocpfState, svgState, boolState, inferState, memoState, hostState, formState, namingState, singleSvgState>>

\* --- the host's walk below a JSX element: opening element, then each attribute
\* value that is an expression container, then a JSX element written in it ---

RECURSIVE attributeVisits(_, _, _, _)
attributeVisits(attrs, k, id, parents) ==
    IF k > Len(attrs) THEN <<>>
    ELSE LET a == attrs[k]
             below == <<[type |-> "JSXAttribute"], [type |-> "JSXOpeningElement"],
                        [type |-> "JSXElement"]>> \o parents
             here ==
                IF a.type = "JSXAttribute" /\ a.value.type = "JSXExpressionContainer"
                THEN <<[h |-> "JSXExpressionContainer", id |-> id \o <<k>>,
                        node |-> [type |-> "JSXExpressionContainer",
                                  expression |-> a.value.expression,
                                  parents |-> below]]>>
                     \o (IF a.value.expression.type = "JSXElement"
                         THEN LET inner == Element("JSXIdentifier", a.value.expression.name, <<>>,
                                                   <<[type |-> "JSXExpressionContainer"]>> \o below)
                              IN <<[h |-> "JSXElement", id |-> id \o <<k, 1>>, node |-> inner],
                                   [h |-> "JSXOpeningElement", id |-> id \o <<k, 1>>,
                                    node |-> inner.openingElement]>>
                         ELSE <<>>)
                ELSE <<>>
         IN here \o attributeVisits(attrs, k + 1, id, parents)

childVisits(node, id) ==
    <<[h |-> "JSXOpeningElement", id |-> id, node |-> node.openingElement]>>
    \o attributeVisits(node.openingElement.attributes, 1, id, node.parents)

\* --- the callbacks ---

\* A slip that keeps the first usage recorded for a prop.
setUsageOnce(usages, component, propName, usage) ==
    LET own == IF MapHas(usages, component) THEN MapGet(usages, component) ELSE <<>>
    IN IF MapHas(own, propName) THEN usages
       ELSE MapSet(usages, component, MapSet(own, propName, usage))

\* usages.set(propName, usage) on the component's map, created on first use.
setUsage(usages, component, propName, usage) ==
    LET own == IF MapHas(usages, component) THEN MapGet(usages, component) ELSE <<>>
    IN MapSet(usages, component, MapSet(own, propName, usage))

\* A slip that keeps the element, not its tag name, as the usage node.
onJSXElementKeepsElement(usages, node, id) ==
    IF node.openingElement.name.type = "JSXIdentifier"
    THEN LET propName == node.openingElement.name.name
             component == findContainingComponent(node)
         IN IF component # NullNode /\ propName \in Range(getComponentProps(component))
            THEN setUsage(usages, component, propName,
                          [node |-> [of |-> id, part |-> "element"], type |-> "component"])
            ELSE usages
    ELSE usages

\* Body of the JSXElement callback.
onJSXElement(usages, node, id) ==
    IF node.openingElement.name.type = "JSXIdentifier"
    THEN LET propName == node.openingElement.name.name
             component == findContainingComponent(node)
         IN IF component # NullNode /\ propName \in Range(getComponentProps(component))
            THEN setUsage(usages, component, propName,
                          [node |-> [of |-> id, part |-> "name"], type |-> "component"])
            ELSE usages
    ELSE usages

\* Body of the JSXExpressionContainer callback.
onJSXExpressionContainer(usages, node, id) ==
    IF node.expression.type = "Identifier"
    THEN LET propName == node.expression.name
             component == findContainingComponent(node)
         IN IF component # NullNode /\ propName \in Range(getComponentProps(component))
            THEN setUsage(usages, component, propName,
                          [node |-> [of |-> id, part |-> "expression"], type |-> "jsx"])
            ELSE usages
    ELSE usages

\* A slip that takes every expression-container value for a JSX element.
passedKindAlwaysJsx(attr) ==
    IF attr.value # NullNode /\ attr.value.type = "JSXExpressionContainer" THEN "jsx" ELSE Null

\* The kind recorded for an attribute: 'jsx', 'component' or nothing.
passedKind(attr) ==
    IF isJSXElementValue(attr) THEN "jsx"
    ELSE IF isComponentReference(attr) THEN "component"
    ELSE Null

\* for (const attr of node.attributes) of the JSXOpeningElement callback.
RECURSIVE recordAttributes(_, _)
recordAttributes(propValues, attrs) ==
    IF attrs = <<>> THEN propValues
    ELSE LET attr == Head(attrs)
             propName == IF attr.type = "JSXAttribute" THEN getAttributeName(attr) ELSE Null
             next == IF propName # Null /\ passedKind(attr) # Null
                     THEN MapSet(propValues, propName, passedKind(attr))
                     ELSE propValues
         IN recordAttributes(next, Tail(attrs))

\* Body of the JSXOpeningElement callback.
onJSXOpeningElement(values, node) ==
    LET name == getComponentName(node)
    IN IF name = Null THEN values
       ELSE LET own == IF MapHas(values, name) THEN MapGet(values, name) ELSE <<>>
            IN MapSet(values, name, recordAttributes(own, node.attributes))

JecmJSXElement ==
    /\ pc = "walk"
    /\ \/ /\ pending = <<>>
          /\ Len(ast) < MaxJsxNodes
          /\ \E node \in ElementNodes :
                /\ ast' = Append(ast, node)
                /\ componentPropUsages' = onJSXElement(componentPropUsages, node, <<Len(ast) + 1>>)
                /\ pending' = childVisits(node, <<Len(ast) + 1>>)
       \/ /\ pending # <<>>
          /\ Head(pending).h = "JSXElement"
          /\ componentPropUsages' =
                onJSXElement(componentPropUsages, Head(pending).node, Head(pending).id)
          /\ pending' = Tail(pending)
          /\ ast' = ast
    /\ UNCHANGED <<pc, reports, componentPropValues, JecmOthers>>

JecmJSXOpeningElement ==
    /\ pc = "walk"
    /\ pending # <<>>
    /\ Head(pending).h = "JSXOpeningElement"
    /\ componentPropValues' = onJSXOpeningElement(componentPropValues, Head(pending).node)
    /\ pending' = Tail(pending)
    /\ UNCHANGED <<ast, pc, reports, componentPropUsages, JecmOthers>>

JecmJSXExpressionContainer ==
    /\ pc = "walk"
    /\ \/ /\ pending = <<>>
          /\ Len(ast) < MaxJsxNodes
          /\ \E node \in ContainerNodes :
                /\ ast' = Append(ast, node)
                /\ componentPropUsages' =
                      onJSXExpressionContainer(componentPropUsages, node, <<Len(ast) + 1>>)
          /\ pending' = pending
       \/ /\ pending # <<>>
          /\ Head(pending).h = "JSXExpressionContainer"
          /\ componentPropUsages' =
                onJSXExpressionContainer(componentPropUsages, Head(pending).node, Head(pending).id)
          /\ pending' = Tail(pending)
          /\ ast' = ast
    /\ UNCHANGED <<pc, reports, componentPropValues, JecmOthers>>

\* A slip that reports a JSX element used as a value as well.
mismatchAlsoWhenJsxUsedAsValue(valueType, usageType) ==
    IF valueType = "jsx" THEN "jsxElementUsedAsComponent"
    ELSE IF valueType = "component" /\ usageType = "jsx" THEN "componentUsedAsValue"
    ELSE Null

\* The message a (passed kind, used kind) pair calls for, if any.
mismatch(valueType, usageType) ==
    IF valueType = "jsx" /\ usageType = "component" THEN "jsxElementUsedAsComponent"
    ELSE IF valueType = "component" /\ usageType = "jsx" THEN "componentUsedAsValue"
    ELSE Null

\* A slip that reports for no usage.
noUsageReports(propUsages, propValues) == <<>>

\* for (const [propName, usage] of propUsages.entries())
RECURSIVE usageReports(_, _)
usageReports(propUsages, propValues) ==
    IF propUsages = <<>> THEN <<>>
    ELSE LET propName == Head(propUsages).key
             usage == Head(propUsages).value
             here == IF MapHas(propValues, propName)
                        /\ mismatch(MapGet(propValues, propName), usage.type) # Null
                     THEN <<[node |-> usage.node,
                             messageId |-> mismatch(MapGet(propValues, propName), usage.type),
                             propName |-> propName]>>
                     ELSE <<>>
         IN here \o usageReports(Tail(propUsages), propValues)

\* for (const [component, propUsages] of componentPropUsages.entries())
RECURSIVE componentReports(_, _)
componentReports(usages, values) ==
    IF usages = <<>> THEN <<>>
    ELSE LET resolved == resolveComponentName(Head(usages).key)
             here == IF resolved = Null \/ ~MapHas(values, resolved) THEN <<>>
                     ELSE usageReports(Head(usages).value, MapGet(values, resolved))
         IN here \o componentReports(Tail(usages), values)

JecmProgramExit ==
    /\ pc = "walk"
    /\ pending = <<>>
    /\ pc' = "done"
    /\ reports' = reports \o componentReports(componentPropUsages, componentPropValues)
    /\ UNCHANGED <<ast, pending, componentPropValues, componentPropUsages, JecmOthers>>

NextJECM ==
    \/ JecmJSXElement
    \/ JecmJSXOpeningElement
    \/ JecmJSXExpressionContainer
    \/ JecmProgramExit

SpecJECM == InitJECM /\ [][NextJECM]_vars

\* ---- what the visited file says, read off the nodes themselves ----

PropNames == {"TestProp", "IconProp"}

\* The nearest function around the JSX node visited i-th, or NullNode.
EnclosingFunction(i) ==
    LET chain == ast[i].parents
        at == {k \in 1..Len(chain) : chain[k].type \in FunctionTypes}
    IN IF at = {} THEN NullNode ELSE chain[CHOOSE k \in at : \A j \in at : k <= j]

\* f destructures P from a parameter.
Destructures(f, P) ==
    \E a \in 1..Len(f.params) :
        /\ f.params[a].type = "ObjectPattern"
        /\ \E b \in 1..Len(f.params[a].properties) :
              f.params[a].properties[b] =
                 [type |-> "Property", key |-> [type |-> "Identifier", name |-> P]]

\* The name f is instantiated by: its own id for a named function declaration, else
\* (arrow or function expression) the name bound by the nearest variable declarator
\* with an identifier target or named function declaration around it; Null if none.
BoundName(f) ==
    IF f.type = "FunctionDeclaration"
    THEN IF f.id = NullNode THEN Null ELSE f.id.name
    ELSE LET at == {k \in 1..Len(f.parents) :
                      \/ /\ f.parents[k].type = "VariableDeclarator"
                         /\ f.parents[k].id.type = "Identifier"
                      \/ /\ f.parents[k].type = "FunctionDeclaration"
                         /\ f.parents[k].id # NullNode}
         IN IF at = {} THEN Null
            ELSE f.parents[CHOOSE k \in at : \A j \in at : k <= j].id.name

IsElement(i) == ast[i].type = "JSXElement"

\* Kinds of value ("literal": a JSX element or fragment; "reference": an identifier
\* or member path) given to prop P at the instantiation sites <name P={...} />.
PassKinds(name, P) ==
    {kind \in {"literal", "reference"} :
        \E i \in 1..Len(ast) :
            /\ IsElement(i)
            /\ ast[i].openingElement.name = [type |-> "JSXIdentifier", name |-> name]
            /\ \E k \in 1..Len(ast[i].openingElement.attributes) :
                 LET a == ast[i].openingElement.attributes[k]
                 IN /\ a.type = "JSXAttribute"
                    /\ a.name = [type |-> "JSXIdentifier", name |-> P]
                    /\ a.value.type = "JSXExpressionContainer"
                    /\ \/ kind = "literal" /\ a.value.expression.type \in {"JSXElement", "JSXFragment"}
                       \/ kind = "reference" /\ a.value.expression.type \in {"Identifier", "MemberExpression"}}

\* Tag-name nodes of the usages <P /> directly inside f.
TagUses(f, P) ==
    {[of |-> <<i>>, part |-> "name"] : i \in {j \in 1..Len(ast) :
        /\ IsElement(j)
        /\ ast[j].openingElement.name = [type |-> "JSXIdentifier", name |-> P]
        /\ EnclosingFunction(j) = f}}

\* Identifier nodes of the usages {P} directly inside f, as a child or as an attribute value.
ValueUses(f, P) ==
    {[of |-> <<i>>, part |-> "expression"] : i \in {j \in 1..Len(ast) :
        /\ ast[j].type = "JSXExpressionContainer"
        /\ ast[j].expression = [type |-> "Identifier", name |-> P]
        /\ EnclosingFunction(j) = f}}
    \cup
    {[of |-> <<ik[1], ik[2]>>, part |-> "expression"] : ik \in {jk \in (1..Len(ast)) \X (1..2) :
        /\ IsElement(jk[1])
        /\ EnclosingFunction(jk[1]) = f
        /\ jk[2] <= Len(ast[jk[1]].openingElement.attributes)
        /\ LET a == ast[jk[1]].openingElement.attributes[jk[2]]
           IN /\ a.type = "JSXAttribute"
              /\ a.value.type = "JSXExpressionContainer"
              /\ a.value.expression = [type |-> "Identifier", name |-> P]}}

\* The later of two usage nodes in visit order.
Later(u, v) == IF u.of[1] >= v.of[1] THEN u ELSE v

LastOf(S) == CHOOSE u \in S : \A v \in S : Later(u, v) = u

\* Diagnostics for prop P anchored inside f.
ReportsFor(f, P) ==
    {k \in 1..Len(reports) :
        /\ reports[k].propName = P
        /\ EnclosingFunction(reports[k].node.of[1]) = f}

\* C4: a component instantiated with prop P given a JSX element literal, whose
\* function destructures P and uses it as a tag <P/>, gets exactly one diagnostic
\* jsxElementUsedAsComponent for P, anchored at the tag-name node of the usage,
\* with data propName = P.
C4_ElementUsedAsComponent ==
    pc = "done" =>
        \A f \in FunctionNodes, P \in PropNames :
            (/\ BoundName(f) # Null
             /\ Destructures(f, P)
             /\ PassKinds(BoundName(f), P) = {"literal"}
             /\ TagUses(f, P) # {}
             /\ ValueUses(f, P) = {})
            => /\ Cardinality(ReportsFor(f, P)) = 1
               /\ \A k \in ReportsFor(f, P) :
                    /\ reports[k].messageId = "jsxElementUsedAsComponent"
                    /\ reports[k].node = LastOf(TagUses(f, P))
                    /\ reports[k].propName = P

\* <TestComponent TestProp={<Icon/>} /> visited before <TestProp/> in the arrow component.
C4_Witness ==
    /\ pc = "done"
    /\ PassKinds("TestComponent", "TestProp") = {"literal"}
    /\ TagUses(FnArrow, "TestProp") = {[of |-> <<2>>, part |-> "name"]}
    /\ ValueUses(FnArrow, "TestProp") = {}
    /\ reports = <<[node |-> [of |-> <<2>>, part |-> "name"],
                    messageId |-> "jsxElementUsedAsComponent", propName |-> "TestProp"]>>

\* C5: a component instantiated with prop P given a bare reference (identifier or
\* member path), whose function uses P as an embedded value {P}, gets exactly one
\* diagnostic componentUsedAsValue for P, anchored at the identifier of the usage;
\* each mismatching prop of a component gets its own single diagnostic.
C5_ComponentUsedAsValue ==
    pc = "done" =>
        \A f \in FunctionNodes, P \in PropNames :
            (/\ BoundName(f) # Null
             /\ Destructures(f, P)
             /\ PassKinds(BoundName(f), P) = {"reference"}
             /\ ValueUses(f, P) # {}
             /\ TagUses(f, P) = {})
            => /\ Cardinality(ReportsFor(f, P)) = 1
               /\ \A k \in ReportsFor(f, P) :
                    /\ reports[k].messageId = "componentUsedAsValue"
                    /\ reports[k].node = LastOf(ValueUses(f, P))
                    /\ reports[k].propName = P

\* Two mismatching props of one component: IconProp given <Icon/> and used as
\* <IconProp/>, TestProp given a member path and used as {TestProp}.
C5_Witness ==
    /\ pc = "done"
    /\ PassKinds("TestComponent", "TestProp") = {"reference"}
    /\ PassKinds("TestComponent", "IconProp") = {"literal"}
    /\ ValueUses(FnArrow, "TestProp") # {}
    /\ TagUses(FnArrow, "IconProp") # {}
    /\ Len(reports) = 2
    /\ Cardinality(ReportsFor(FnArrow, "TestProp")) = 1
    /\ Cardinality(ReportsFor(FnArrow, "IconProp")) = 1
    /\ \E k \in 1..2 : reports[k].messageId = "componentUsedAsValue"

\* C6: no diagnostic for a prop whose passed kind and used kind match (JSX literal
\* used as {P}, reference used as <P/>), nor for one with an unknown side: no
\* recorded passed kind (e.g. only a string literal value), no usage, or a component
\* whose name cannot be resolved.
C6_NoDiagnosticWhenMatchingOrUnknown ==
    \A f \in FunctionNodes, P \in PropNames :
        (\/ BoundName(f) = Null
         \/ PassKinds(BoundName(f), P) = {}
         \/ TagUses(f, P) \cup ValueUses(f, P) = {}
         \/ PassKinds(BoundName(f), P) = {"literal"} /\ TagUses(f, P) = {}
         \/ PassKinds(BoundName(f), P) = {"reference"} /\ ValueUses(f, P) = {})
        => ReportsFor(f, P) = {}

\* <TestComponent TestProp={<Icon/>} />, {TestProp} in the component, and <TestProp/>
\* in the anonymous default export: everything matches or is unknown.
C6_Witness ==
    /\ pc = "done"
    /\ Len(ast) = 3
    /\ PassKinds("TestComponent", "TestProp") = {"literal"}
    /\ ValueUses(FnArrow, "TestProp") # {}
    /\ TagUses(FnAnonymous, "TestProp") # {}
    /\ reports = <<>>

(***************************************************************************)
(* svg-currentcolor                                                        *)
(***************************************************************************)

\* Most JSX elements in the tree of a svg-currentcolor session.
MaxElements == 2

\* Most attributes written on the elements of that tree altogether.
MaxAttrs == 2

\* Strings are sequences of characters, so that includes() is computed.
S_none == <<"n", "o", "n", "e">>
S_currentColor == <<"c", "u", "r", "r", "e", "n", "t", "C", "o", "l", "o", "r">>
S_red == <<"r", "e", "d">>
S_blue == <<"b", "l", "u", "e">>
S_urlGradient == <<"u", "r", "l", "(", "#", "g", ")">>
S_url == <<"u", "r", "l", "(">>
Quote == "\""

\* String.prototype.includes
includes(str, sub) ==
    \E i \in 0..(Len(str) - Len(sub)) : SubSeq(str, i + 1, i + Len(sub)) = sub

Literal(v) == [type |-> "Literal", value |-> v]

\* What can be written on an element, by attribute name: fill / stroke string
\* literals, fill={expr}, another attribute holding a colour, and a spread.
JSXAttribute(n, value) ==
    [type |-> "JSXAttribute", name |-> [type |-> "JSXIdentifier", name |-> n], value |-> value]

JSXSpreadAttribute ==
    [type |-> "JSXSpreadAttribute", name |-> [type |-> "null", name |-> Null], value |-> NullNode]

AttributeChoices ==
    <<{JSXAttribute("fill", Literal(v)) : v \in {S_none, S_currentColor, S_red, S_blue, S_urlGradient}}
        \cup {JSXAttribute("fill", [type |-> "JSXExpressionContainer"])},
      {JSXAttribute("stroke", Literal(v)) : v \in {S_none, S_currentColor, S_red, S_blue, S_urlGradient}},
      {JSXAttribute("color", Literal(S_red))},
      {JSXSpreadAttribute}>>

\* The attribute lists of one element with at most budget attributes, one per
\* name at most, in the order fill, stroke, color, spread (from name k on).
RECURSIVE AttributeLists(_, _)
AttributeLists(k, budget) ==
    IF k > Len(AttributeChoices) THEN {<<>>}
    ELSE AttributeLists(k + 1, budget)
         \cup (IF budget = 0 THEN {}
               ELSE {<<a>> \o rest : a \in AttributeChoices[k],
                                     rest \in AttributeLists(k + 1, budget - 1)})

\* The attribute lists of n elements with at most budget attributes altogether.
RECURSIVE AttributeAssignments(_, _)
AttributeAssignments(n, budget) ==
    IF n = 0 THEN {<<>>}
    ELSE UNION {{Append(before, l) : before \in AttributeAssignments(n - 1, budget - Len(l))}
                : l \in AttributeLists(1, budget)}

\* The JSX trees of a file: element 1 is an <svg> root, every other element is a
\* child of an earlier one (pre-order numbering), an <svg> or a <path>, held by its
\* parent either directly (a JSXElement child) or inside {...} (a
\* JSXExpressionContainer child).
Shapes(n) ==
    [2..n -> [tag : {"svg", "path"}, parent : 1..(n - 1),
              via : {"JSXElement", "JSXExpressionContainer"}]]

Tree(n, shape, attributes) ==
    [i \in 1..n |->
        [type |-> "JSXElement",
         tag |-> IF i = 1 THEN "svg" ELSE shape[i].tag,
         parent |-> IF i = 1 THEN 0 ELSE shape[i].parent,
         via |-> IF i = 1 THEN "JSXElement" ELSE shape[i].via,
         attributes |-> attributes[i]]]

\* Pre-order: the parent of element i is element i-1 or one of its ancestors.
RECURSIVE isAncestorOrSelf(_, _, _)
isAncestorOrSelf(tree, a, i) ==
    IF i = 0 THEN FALSE
    ELSE IF a = i THEN TRUE
    ELSE isAncestorOrSelf(tree, a, tree[i].parent)

PreOrder(tree) ==
    \A i \in 2..Len(tree) : tree[i].parent < i /\ isAncestorOrSelf(tree, tree[i].parent, i - 1)

\* node.children: the child nodes of element i in source order.
childrenOf(tree, i) ==
    LET kids == {j \in 1..Len(tree) : tree[j].parent = i}
    IN SelectSeq2([j \in 1..Len(tree) |->
                      [type |-> tree[j].via, element |-> j]], kids)

\* The null a string-valued function returns (no character sequence equals it).
NullString == <<Null>>

getAttributeValue(value) ==
    IF value = NullNode THEN NullString
    ELSE IF value.type = "Literal" THEN value.value
    ELSE IF value.type = "JSXExpressionContainer" THEN NullString
    ELSE NullString

\* !colorValue
falsy(str) == str = NullString \/ str = <<>>

\* ast-helpers.validateJSXElement: the node is a structurally sound JSX element.
validateJSXElement(node) == node.type = "JSXElement"

\* The tree of the current run, and the run's number (a re-run parses new nodes).
tree == ast[Len(ast)]
run == Len(ast)

\* checkForMultipleColors: the condition under which an attribute is passed over.
skippedByColorScan(attr) ==
    \/ attr.type # "JSXAttribute"
    \/ attr.name.type # "JSXIdentifier"
    \/ (attr.name.name # "fill" /\ attr.name.name # "stroke")
    \/ attr.value = NullNode
    \/ LET colorValue == getAttributeValue(attr.value)
       IN falsy(colorValue) \/ colorValue = S_none \/ colorValue = S_currentColor

\* The loop over the attributes: [returned |-> an early "return true", colors |-> the set].
RECURSIVE scanAttributes(_, _, _)
scanAttributes(attributes, k, colors) ==
    IF k > Len(attributes) THEN [returned |-> FALSE, colors |-> colors]
    ELSE IF skippedByColorScan(attributes[k]) THEN scanAttributes(attributes, k + 1, colors)
    ELSE LET added == colors \cup {getAttributeValue(attributes[k].value)}
         IN IF Cardinality(added) > 1
            THEN [returned |-> TRUE, colors |-> added]
            ELSE scanAttributes(attributes, k + 1, added)

RECURSIVE checkForMultipleColors(_, _, _)
RECURSIVE scanChildren(_, _, _, _)

\* The loop over node.children.
scanChildren(t, children, k, colors) ==
    IF k > Len(children) THEN [returned |-> FALSE, colors |-> colors]
    ELSE IF children[k].type # "JSXElement" THEN scanChildren(t, children, k + 1, colors)
    ELSE LET sub == checkForMultipleColors(t, children[k].element, colors)
         IN IF sub.returned
            THEN sub
            ELSE scanChildren(t, children, k + 1, sub.colors)

\* [returned |-> the boolean result, colors |-> the set after the call].
checkForMultipleColors(t, i, colors) ==
    IF Cardinality(colors) > 1 THEN [returned |-> TRUE, colors |-> colors]
    ELSE LET own == scanAttributes(t[i].attributes, 1, colors)
         IN IF own.returned THEN own
            ELSE LET below == scanChildren(t, childrenOf(t, i), 1, own.colors)
                 IN IF below.returned THEN below
                    ELSE [returned |-> Cardinality(below.colors) > 1, colors |-> below.colors]

\* findColorAttributeIssues: a value that is no issue.
skippedAsIssueCurrentAndNoneOnly(value) ==
    falsy(value) \/ value = S_currentColor \/ value = S_none

skippedAsIssue(value) ==
    falsy(value) \/ value = S_currentColor \/ value = S_none \/ includes(value, S_url)

\* The issues of the attributes of element i, from attribute k on.
RECURSIVE attributeIssues(_, _, _)
attributeIssues(t, i, k) ==
    IF k > Len(t[i].attributes) THEN <<>>
    ELSE LET attr == t[i].attributes[k]
             pass == \/ attr.type # "JSXAttribute"
                     \/ attr.name.type # "JSXIdentifier"
                     \/ (attr.name.name # "fill" /\ attr.name.name # "stroke")
                     \/ attr.value = NullNode
                     \/ skippedAsIssue(getAttributeValue(attr.value))
         IN (IF pass THEN <<>>
             ELSE <<[attribute |-> attr.name.name,
                     value |-> getAttributeValue(attr.value),
                     node |-> <<run, i, k>>]>>)
            \o attributeIssues(t, i, k + 1)

RECURSIVE traverse(_, _)
RECURSIVE traverseChildren(_, _, _)

traverseChildren(t, children, k) ==
    IF k > Len(children) THEN <<>>
    ELSE (IF children[k].type # "JSXElement" THEN <<>> ELSE traverse(t, children[k].element))
         \o traverseChildren(t, children, k + 1)

traverse(t, i) == attributeIssues(t, i, 1) \o traverseChildren(t, childrenOf(t, i), 1)

findColorAttributeIssues(t, i) == traverse(t, i)

\* The text a fix writes in place of the value literal.
replacementTextLowercase ==
    <<Quote>> \o <<"c", "u", "r", "r", "e", "n", "t", "c", "o", "l", "o", "r">> \o <<Quote>>

replacementText == <<Quote>> \o S_currentColor \o <<Quote>>

\* fix(fixer): replaceText on the attribute's value node, or null without a value.
fixOf(t, issue) ==
    IF t[issue.node[2]].attributes[issue.node[3]].value = NullNode THEN NullNode
    ELSE [type |-> "replaceText", target |-> issue.node, text |-> replacementText]

issueReports(t, issues) ==
    [k \in 1..Len(issues) |->
        [node |-> issues[k].node,
         messageId |-> "useCurrentColor",
         data |-> [attribute |-> issues[k].attribute, value |-> issues[k].value],
         fix |-> fixOf(t, issues[k])]]

InitSvg ==
    /\ \E n \in 1..MaxElements :
         \E shape \in Shapes(n), attributes \in AttributeAssignments(n, MaxAttrs) :
            /\ PreOrder(Tree(n, shape, attributes))
            /\ ast = <<Tree(n, shape, attributes)>>
    /\ pc = "walk"
    /\ reports = <<>>
    /\ multiColorCache = <<>>
    /\ visited = 0
    /\ OcpfIdle /\ JecmIdle /\ BoolIdle /\ InferIdle
    /\ MemoIdle
    /\ HostIdle /\ FormIdle /\ NamingIdle /\ SingleSvgIdle

SvgOthers == <<ocpfState, jecmState, boolState, inferState, memoState, hostState, formState, namingState, singleSvgState>>

\* The JSXElement handler on the next element in visiting order.
SvgJSXElement ==
    /\ pc = "walk"
    /\ visited < Len(tree)
    /\ LET i == visited + 1
           node == tree[i]
           key == <<run, i>>
           cached == MapHas(multiColorCache, key)
           hasMultipleColors ==
               IF cached THEN MapGet(multiColorCache, key)
               ELSE checkForMultipleColors(tree, i, {}).returned
       IN /\ visited' = i
          /\ IF validateJSXElement(node) /\ node.tag = "svg"
             THEN /\ multiColorCache' =
                        IF cached THEN multiColorCache
                        ELSE MapSet(multiColorCache, key, hasMultipleColors)
                  /\ reports' =
                        IF hasMultipleColors THEN reports
                        ELSE reports \o issueReports(tree, findColorAttributeIssues(tree, i))
             ELSE UNCHANGED <<multiColorCache, reports>>
    /\ UNCHANGED <<ast, pc, SvgOthers>>

\* The traversal of the file is over.
SvgTraversalEnds ==
    /\ pc = "walk"
    /\ visited = Len(tree)
    /\ pc' = "done"
    /\ UNCHANGED <<ast, reports, svgState, SvgOthers>>

\* The source text of a string literal read back by the parser.
parseAttributeValue(text) ==
    IF Len(text) >= 2 /\ text[1] = Quote /\ text[Len(text)] = Quote
    THEN Literal(SubSeq(text, 2, Len(text) - 1))
    ELSE [type |-> "JSXExpressionContainer"]

\* The tree parsed from the text in which every proposed fix has been applied.
applyFixes(t, proposed) ==
    [i \in 1..Len(t) |->
        [t[i] EXCEPT !.attributes =
            [k \in 1..Len(t[i].attributes) |->
                LET fixes == {proposed[r].fix : r \in {q \in 1..Len(proposed) :
                                  /\ proposed[q].fix # NullNode
                                  /\ proposed[q].node = <<run, i, k>>}}
                IN IF fixes = {} THEN t[i].attributes[k]
                   ELSE [t[i].attributes[k] EXCEPT
                            !.value = parseAttributeValue((CHOOSE f \in fixes : TRUE).text)]]]]

\* The fixes of a finished run are applied and the rule runs on the result.
SvgApplyFixesAndRerun ==
    /\ pc = "done"
    /\ Len(ast) = 1
    /\ reports # <<>>
    /\ ast' = Append(ast, applyFixes(tree, reports))
    /\ pc' = "walk"
    /\ reports' = <<>>
    /\ visited' = 0
    /\ UNCHANGED <<multiColorCache, SvgOthers>>

NextSvg ==
    \/ SvgJSXElement
    \/ SvgTraversalEnds
    \/ SvgApplyFixesAndRerun

SpecSvg == InitSvg /\ [][NextSvg]_vars

(***************************************************************************)
(* svg-currentcolor: the claims, stated on the tree the host hands over    *)
(***************************************************************************)

\* The elements of the subtree of r: r and all its descendant tags.
Subtree(t, r) == {j \in 1..Len(t) : isAncestorOrSelf(t, r, j)}

\* The elements reached from r through element children only (no {...} on the way).
RECURSIVE ReachedThroughElements(_, _, _)
ReachedThroughElements(t, r, j) ==
    IF j = r THEN TRUE
    ELSE IF j = 0 \/ j = 1 THEN FALSE
    ELSE t[j].via = "JSXElement" /\ ReachedThroughElements(t, r, t[j].parent)

ElementSubtree(t, r) == {j \in 1..Len(t) : ReachedThroughElements(t, r, j)}

\* The fill / stroke attributes of the elements S whose value is a string literal
\* other than currentColor and none, as <<element, attribute index>>.
ColorAttributes(t, S) ==
    {a \in UNION {{<<i, k>> : k \in 1..Len(t[i].attributes)} : i \in S} :
        LET attr == t[a[1]].attributes[a[2]]
        IN /\ attr.type = "JSXAttribute"
           /\ attr.name.name \in {"fill", "stroke"}
           /\ attr.value.type = "Literal"
           /\ attr.value.value \notin {S_none, S_currentColor}}

ColorValues(t, S) == {t[a[1]].attributes[a[2]].value.value : a \in ColorAttributes(t, S)}

ContainsUrl(str) == \E i \in 1..Len(str) : i + 3 <= Len(str) /\
    str[i] = "u" /\ str[i + 1] = "r" /\ str[i + 2] = "l" /\ str[i + 3] = "("

\* This step is the visit of the <svg> element r.
VisitOfSvg(r) ==
    /\ pc = "walk"
    /\ visited' = r
    /\ visited = r - 1
    /\ r \in 1..Len(tree)
    /\ tree[r].tag = "svg"

\* The diagnostics the step emits.
Emitted == SubSeq(reports', Len(reports) + 1, Len(reports'))

\* d is a useCurrentColor diagnostic at attribute a whose fix is the single
\* replacement of a's value literal with the text "currentColor".
IsCurrentColorFixAt(d, a) ==
    /\ d.node = <<run, a[1], a[2]>>
    /\ d.messageId = "useCurrentColor"
    /\ d.fix = [type |-> "replaceText", target |-> <<run, a[1], a[2]>>,
                text |-> <<Quote, "c", "u", "r", "r", "e", "n", "t", "C", "o", "l", "o", "r", Quote>>]

OnePerAttribute(emitted, A) ==
    \A a \in A : Cardinality({k \in 1..Len(emitted) : IsCurrentColorFixAt(emitted[k], a)}) = 1

C8_MultiColorSubtreeSilent ==
    \A r \in 1..Len(tree) :
        (tree[r].tag = "svg" /\ Cardinality(ColorValues(tree, Subtree(tree, r))) >= 2)
           => \A k \in 1..Len(reports) : reports[k].node[2] \notin Subtree(tree, r)

\* C9: once the fixes of a run have been applied and the rule has run again, no
\* diagnostic is emitted for any attribute in the subtree of an svg that was
\* single-colour in the first run.
C9_FixesAreIdempotent ==
    run = 2 =>
        \A r \in 1..Len(ast[1]) :
            (ast[1][r].tag = "svg" /\ Cardinality(ColorValues(ast[1], Subtree(ast[1], r))) = 1)
               => \A k \in 1..Len(reports) : reports[k].node[2] \notin Subtree(ast[1], r)

\* The second run over a fixed single-colour file is over and found nothing.
C9_Witness ==
    /\ run = 2
    /\ pc = "done"
    /\ ast[1][1].tag = "svg"
    /\ Cardinality(ColorValues(ast[1], Subtree(ast[1], 1))) = 1
    /\ ast[2] # ast[1]
    /\ reports = <<>>

(***************************************************************************)
(* boolean-naming-convention                                               *)
(***************************************************************************)

\* Most nodes the host hands to the callbacks in a boolean-naming-convention session.
MaxBoolNodes == 2

\* Most characters that follow the stem of a generated name.
MaxTail == 1

S_is == <<"i", "s">>
S_has == <<"h", "a", "s">>
S_should == <<"s", "h", "o", "u", "l", "d">>
S_can == <<"c", "a", "n">>
S_will == <<"w", "i", "l", "l">>
S_as == <<"a", "s">>
S_with == <<"w", "i", "t", "h">>
S_show == <<"s", "h", "o", "w">>
S_hide == <<"h", "i", "d", "e">>
S_open == <<"o", "p", "e", "n">>
S_close == <<"c", "l", "o", "s", "e">>
S_inset == <<"i", "n", "s", "e", "t">>
S_viewport == <<"v", "i", "e", "w", "p", "o", "r", "t">>
S_defaultOpen == <<"d", "e", "f", "a", "u", "l", "t", "O", "p", "e", "n">>
S_enabled == <<"e", "n", "a", "b", "l", "e", "d">>
S_isEnabled == <<"i", "s", "E", "n", "a", "b", "l", "e", "d">>

LowerLetters == <<"a", "b", "c", "d", "e", "f", "g", "h", "i", "j", "k", "l", "m",
                  "n", "o", "p", "q", "r", "s", "t", "u", "v", "w", "x", "y", "z">>

UpperLetters == <<"A", "B", "C", "D", "E", "F", "G", "H", "I", "J", "K", "L", "M",
                  "N", "O", "P", "Q", "R", "S", "T", "U", "V", "W", "X", "Y", "Z">>

\* The UTF-16 code unit of a character (what >= and <= on one-character strings compare).
codeUnit(c) ==
    IF \E i \in 1..26 : UpperLetters[i] = c THEN 64 + (CHOOSE i \in 1..26 : UpperLetters[i] = c)
    ELSE IF \E i \in 1..26 : LowerLetters[i] = c THEN 96 + (CHOOSE i \in 1..26 : LowerLetters[i] = c)
    ELSE IF c = "_" THEN 95
    ELSE IF c = "É" THEN 201
    ELSE 0

\* String.prototype.toUpperCase on one character.
toUpperCase(c) ==
    IF \E i \in 1..26 : LowerLetters[i] = c
    THEN UpperLetters[CHOOSE i \in 1..26 : LowerLetters[i] = c]
    ELSE c

\* String.prototype.startsWith
startsWith(str, p) == Len(str) >= Len(p) /\ SubSeq(str, 1, Len(p)) = p

\* String.prototype.slice(from) and charAt(0).toUpperCase()
slice(str, from) == SubSeq(str, from + 1, Len(str))

\* Array.prototype.join
RECURSIVE join(_, _)
join(strs, sep) ==
    IF strs = <<>> THEN <<>>
    ELSE IF Len(strs) = 1 THEN strs[1]
    ELSE strs[1] \o sep \o join(Tail(strs), sep)

\* defaultOptions[0], which is also what create() falls back to field by field.
DefaultOptions ==
    [prefix |-> S_is,
     allowedPrefixes |-> <<S_has, S_should, S_can, S_will, S_as, S_with,
                           S_show, S_hide, S_open, S_close>>,
     allowedNames |-> <<S_inset, S_viewport, S_defaultOpen, S_open>>]

\* context.options[0] || {}
NoOptions == [field \in {} |-> Null]

\* Options a configuration file sets: another primary prefix with is as an
\* alternative, and another list of allowed names.
ConfiguredOptions ==
    {[prefix |-> S_should, allowedPrefixes |-> <<S_is>>],
     [allowedNames |-> <<S_viewport, S_enabled>>]}

\* const prefix = options.prefix || "is"
prefixOf(opts) ==
    IF "prefix" \in DOMAIN opts /\ opts.prefix # <<>> THEN opts.prefix ELSE S_is

\* const allowedPrefixes = options.allowedPrefixes || [...]
allowedPrefixesOf(opts) ==
    IF "allowedPrefixes" \in DOMAIN opts THEN opts.allowedPrefixes
    ELSE <<S_has, S_should, S_can, S_will, S_as, S_with, S_show, S_hide, S_open, S_close>>

\* const allowedNames = options.allowedNames || [...]
allowedNamesOf(opts) ==
    IF "allowedNames" \in DOMAIN opts THEN opts.allowedNames
    ELSE <<S_inset, S_viewport, S_defaultOpen, S_open>>

allPrefixesOf(opts) == <<prefixOf(opts)>> \o allowedPrefixesOf(opts)

\* allowedNames.includes(name)
isAllowedNameNever(opts, name) == FALSE

isAllowedNameFirstOnly(opts, name) == allowedNamesOf(opts)[1] = name

isAllowedName(opts, name) == \E i \in 1..Len(allowedNamesOf(opts)) : allowedNamesOf(opts)[i] = name

\* name.length > p.length && name.startsWith(p) && "A" <= name.charAt(p.length) <= "Z"
matchesPrefix(name, p) ==
    /\ Len(name) > Len(p)
    /\ startsWith(name, p)
    /\ codeUnit(name[Len(p) + 1]) >= codeUnit("A")
    /\ codeUnit(name[Len(p) + 1]) <= codeUnit("Z")

\* The prefix checks of checkBooleanNaming: the alternatives are tried only inside
\* the branch taken when the name is longer than the primary prefix.
passesPrefixCheck(opts, name) ==
    LET allPrefixes == allPrefixesOf(opts)
        primaryPrefix == allPrefixes[1]
    IN /\ Len(name) > Len(primaryPrefix)
       /\ \/ matchesPrefix(name, primaryPrefix)
          \/ \E i \in 2..Len(allPrefixes) : matchesPrefix(name, allPrefixes[i])

\* const suggestedName = name.charAt(0).toUpperCase() + name.slice(1)
suggestedNameOf(name) ==
    (IF name = <<>> THEN <<>> ELSE <<toUpperCase(name[1])>>) \o slice(name, 1)

\* checkBooleanNaming: the diagnostics it emits (none or one).
checkBooleanNaming(opts, name, node) ==
    IF isAllowedName(opts, name) THEN <<>>
    ELSE IF passesPrefixCheck(opts, name) THEN <<>>
    ELSE <<[node |-> node,
            messageId |-> "booleanNaming",
            data |-> [name |-> name,
                      prefix |-> prefixOf(opts),
                      prefixes |-> join([i \in 1..Len(allPrefixesOf(opts)) |->
                                            <<"'">> \o allPrefixesOf(opts)[i] \o <<"'">>],
                                        <<",", " ">>),
                      suggestedName |-> suggestedNameOf(name)]]>>

\* --- the nodes of the file ---

\* The names of identifiers: a stem (nothing, or a prefix of the default options)
\* followed by up to MaxTail characters, the names of the rule's documentation,
\* and the allowed names.
TailChars == {"E", "e", "_", "É"}

RECURSIVE Tails(_)
Tails(n) ==
    IF n = 0 THEN {<<>>}
    ELSE Tails(n - 1) \cup {Append(t, c) : t \in Tails(n - 1), c \in TailChars}

Stems == {<<>>, S_is, S_has, S_as, S_should, S_open}

IdentifierNames ==
    ({stem \o t : stem \in Stems, t \in Tails(MaxTail)} \ {<<>>})
    \cup {S_enabled, S_isEnabled, S_inset, S_viewport, S_defaultOpen}

TypeAnnotations == {"TSBooleanKeyword", "TSStringKeyword", Null}

Identifier(name, annotation) ==
    [type |-> "Identifier", name |-> name, typeAnnotation |-> annotation]

Pattern == [type |-> "ObjectPattern", name |-> <<>>, typeAnnotation |-> Null]

\* TypeFlags of the type the checker resolves for an expression: boolean
\* (Boolean | Union), string, the literal type true; tsNode is whether
\* esTreeNodeToTSNodeMap knows the node.
BooleanFlags == [tsNode |-> TRUE, flags |-> 1048576 + 16]
StringFlags == [tsNode |-> TRUE, flags |-> 4]
Unmapped == [tsNode |-> FALSE, flags |-> 0]

Expression(type, valueType, operator, resolved) ==
    [type |-> type, valueType |-> valueType, operator |-> operator, resolved |-> resolved]

\* Initializers: true, "s", !x, -x, and calls the checker types as boolean or
\* string or cannot map.
Initializers ==
    {NullNode,
     Expression("Literal", "boolean", Null, BooleanFlags),
     Expression("Literal", "string", Null, StringFlags),
     Expression("UnaryExpression", Null, "!", BooleanFlags),
     Expression("UnaryExpression", Null, "-", StringFlags),
     Expression("CallExpression", Null, Null, BooleanFlags),
     Expression("CallExpression", Null, Null, StringFlags),
     Expression("CallExpression", Null, Null, Unmapped)}

VariableDeclarators ==
    [type : {"VariableDeclarator"},
     id : {Identifier(n, a) : n \in IdentifierNames, a \in TypeAnnotations},
     init : Initializers]
    \cup
    [type : {"VariableDeclarator"}, id : {Pattern},
     init : {Expression("CallExpression", Null, Null, BooleanFlags)}]

ParameterLists ==
    {<<>>, <<Pattern>>}
    \cup {<<Identifier(n, a)>> : n \in IdentifierNames, a \in TypeAnnotations}
    \cup {<<Pattern, Identifier(n, "TSBooleanKeyword")>> : n \in IdentifierNames}

FunctionKinds == {"FunctionDeclaration", "ArrowFunctionExpression", "FunctionExpression"}

Functions == [type : FunctionKinds, params : ParameterLists]

PropertySignatures ==
    [type : {"TSPropertySignature"},
     key : {Identifier(n, Null) : n \in IdentifierNames}
           \cup {[type |-> "Literal", name |-> S_enabled, typeAnnotation |-> Null]},
     typeAnnotation : TypeAnnotations]

BoolNodes == VariableDeclarators \cup Functions \cup PropertySignatures

\* Declarations that surround the node under study in a longer file.
Neighbours ==
    {[type |-> "VariableDeclarator", id |-> Identifier(S_enabled, "TSBooleanKeyword"),
      init |-> NullNode],
     [type |-> "FunctionDeclaration", params |-> <<Identifier(S_isEnabled, "TSBooleanKeyword")>>]}

\* --- ast-helpers type guards ---

isVariableDeclarator(node) == node.type = "VariableDeclarator"

isIdentifier(node) == node.type = "Identifier"

\* --- type-helpers ---

\* hasExplicitBooleanAnnotation on the node with identity id:
\* [result |-> the boolean, annotations |-> explicitAnnotationCache after the call].
hasExplicitBooleanAnnotation(node, id, annotations) ==
    IF MapHas(annotations, id)
    THEN [result |-> MapGet(annotations, id), annotations |-> annotations]
    ELSE LET result ==
                 CASE node.type = "VariableDeclarator" ->
                        /\ node.id.type = "Identifier"
                        /\ node.id.typeAnnotation = "TSBooleanKeyword"
                   [] node.type = "Identifier" ->
                        node.typeAnnotation = "TSBooleanKeyword"
                   [] node.type = "TSPropertySignature" ->
                        node.typeAnnotation = "TSBooleanKeyword"
                   [] OTHER -> FALSE
         IN [result |-> result, annotations |-> MapSet(annotations, id, result)]

\* (type.flags & 16) !== 0
hasBooleanFlagOrAny(flags) == flags # 0

hasBooleanFlag(flags) == (flags \div 16) % 2 = 1

\* isBooleanType on the node with identity id:
\* [result, annotations, types |-> typeCheckCache after the call].
isBooleanType(node, id, services, annotations, types) ==
    IF MapHas(types, id)
    THEN [result |-> MapGet(types, id), annotations |-> annotations, types |-> types]
    ELSE IF services /\ node.resolved.tsNode
    THEN LET result == hasBooleanFlag(node.resolved.flags)
         IN [result |-> result, annotations |-> annotations,
             types |-> MapSet(types, id, result)]
    ELSE LET explicit == hasExplicitBooleanAnnotation(node, id, annotations)
         IN [result |-> explicit.result, annotations |-> explicit.annotations,
             types |-> MapSet(types, id, explicit.result)]

\* --- the rule ---

isBooleanLiteral(node) ==
    IF node = NullNode THEN FALSE
    ELSE IF node.type = "Literal" /\ node.valueType = "boolean" THEN TRUE
    ELSE IF node.type = "UnaryExpression" /\ node.operator = "!" THEN TRUE
    ELSE FALSE

InitBool ==
    /\ ast = <<>>
    /\ pc = "walk"
    /\ reports = <<>>
    /\ options \in {NoOptions, DefaultOptions} \cup ConfiguredOptions
    /\ parserServices \in BOOLEAN
    /\ explicitAnnotationCache = <<>>
    /\ typeCheckCache = <<>>
    /\ OcpfIdle /\ JecmIdle /\ SvgIdle /\ InferIdle
    /\ MemoIdle
    /\ HostIdle /\ FormIdle /\ NamingIdle /\ SingleSvgIdle

BoolOthers == <<ocpfState, jecmState, svgState, inferState, memoState, hostState, formState, namingState, singleSvgState>>

\* The host hands one more node: one node of the file is drawn from all nodes,
\* the others are its neighbours.
BoolHostHands(node) ==
    /\ pc = "walk"
    /\ Len(ast) < MaxBoolNodes
    /\ node \in Neighbours \/ \A i \in 1..Len(ast) : ast[i] \in Neighbours
    /\ ast' = Append(ast, node)
    /\ UNCHANGED <<pc, options, parserServices, BoolOthers>>

\* Identity of a part of the node the host hands next.
partId(part, k) == <<Len(ast) + 1, part, k>>

BoolVariableDeclarator(node) ==
    /\ node.type = "VariableDeclarator"
    /\ BoolHostHands(node)
    /\ IF ~isVariableDeclarator(node) \/ node.id = NullNode \/ ~isIdentifier(node.id)
       THEN UNCHANGED <<reports, explicitAnnotationCache, typeCheckCache>>
       ELSE LET name == node.id.name
                explicit == hasExplicitBooleanAnnotation(node.id, partId("id", 0),
                                                         explicitAnnotationCache)
                inferred == isBooleanType(node.init, partId("init", 0), parserServices,
                                          explicit.annotations, typeCheckCache)
            IN IF explicit.result
               THEN /\ reports' = reports \o checkBooleanNaming(options, name, partId("id", 0))
                    /\ explicitAnnotationCache' = explicit.annotations
                    /\ UNCHANGED typeCheckCache
               ELSE IF node.init # NullNode /\ isBooleanLiteral(node.init)
               THEN /\ reports' = reports \o checkBooleanNaming(options, name, partId("id", 0))
                    /\ explicitAnnotationCache' = explicit.annotations
                    /\ UNCHANGED typeCheckCache
               ELSE IF node.init # NullNode
               THEN /\ reports' = IF inferred.result
                                  THEN reports \o checkBooleanNaming(options, name, partId("id", 0))
                                  ELSE reports
                    /\ explicitAnnotationCache' = inferred.annotations
                    /\ typeCheckCache' = inferred.types
               ELSE /\ explicitAnnotationCache' = explicit.annotations
                    /\ UNCHANGED <<reports, typeCheckCache>>

\* for (const param of node.params): [reports, annotations] after the params from k on.
RECURSIVE checkParams(_, _, _, _, _)
checkParams(opts, params, k, emitted, annotations) ==
    IF k > Len(params) THEN [reports |-> emitted, annotations |-> annotations]
    ELSE IF ~isIdentifier(params[k]) THEN checkParams(opts, params, k + 1, emitted, annotations)
    ELSE LET explicit == hasExplicitBooleanAnnotation(params[k], partId("param", k), annotations)
         IN checkParams(opts, params, k + 1,
                        IF explicit.result
                        THEN emitted \o checkBooleanNaming(opts, params[k].name, partId("param", k))
                        ELSE emitted,
                        explicit.annotations)

\* The body shared by the three function callbacks.
BoolFunction(node) ==
    /\ BoolHostHands(node)
    /\ LET after == checkParams(options, node.params, 1, reports, explicitAnnotationCache)
       IN /\ reports' = after.reports
          /\ explicitAnnotationCache' = after.annotations
    /\ UNCHANGED typeCheckCache

BoolFunctionDeclaration(node) == node.type = "FunctionDeclaration" /\ BoolFunction(node)

BoolArrowFunctionExpression(node) == node.type = "ArrowFunctionExpression" /\ BoolFunction(node)

BoolFunctionExpression(node) == node.type = "FunctionExpression" /\ BoolFunction(node)

BoolTSPropertySignature(node) ==
    /\ node.type = "TSPropertySignature"
    /\ BoolHostHands(node)
    /\ reports' =
          IF node.key = NullNode \/ node.typeAnnotation = Null THEN reports
          ELSE IF isIdentifier(node.key) /\ node.typeAnnotation = "TSBooleanKeyword"
          THEN reports \o checkBooleanNaming(options, node.key.name, partId("key", 0))
          ELSE reports
    /\ UNCHANGED <<explicitAnnotationCache, typeCheckCache>>

\* The traversal of the file is over.
BoolTraversalEnds ==
    /\ pc = "walk"
    /\ pc' = "done"
    /\ UNCHANGED <<ast, reports, boolState, BoolOthers>>

\* The nodes the host can hand next.
NextNodes == IF \A i \in 1..Len(ast) : ast[i] \in Neighbours THEN BoolNodes ELSE Neighbours

NextBool ==
    \/ \E node \in NextNodes :
          \/ BoolVariableDeclarator(node)
          \/ BoolFunctionDeclaration(node)
          \/ BoolArrowFunctionExpression(node)
          \/ BoolFunctionExpression(node)
          \/ BoolTSPropertySignature(node)
    \/ BoolTraversalEnds

SpecBool == InitBool /\ [][NextBool]_vars

(***************************************************************************)
(* boolean-naming-convention: the claims, stated on the nodes handed over  *)
(***************************************************************************)

\* The declarators of the file whose identifier is annotated ": boolean".
AnnotatedDeclarators ==
    {i \in 1..Len(ast) : /\ ast[i].type = "VariableDeclarator"
                         /\ ast[i].id.type = "Identifier"
                         /\ ast[i].id.typeAnnotation = "TSBooleanKeyword"}

ConfiguredPrefixes ==
    {S_is, S_has, S_should, S_can, S_will, S_as, S_with, S_show, S_hide, S_open, S_close}

ConfiguredAllowedNames == {S_inset, S_viewport, S_defaultOpen, S_open}

AsciiUppercase == Range(UpperLetters)

UppercaseLetters == AsciiUppercase \cup {"É"}

\* The name is a configured prefix immediately followed by a character of Following.
PrefixedName(name, Following) ==
    \E p \in ConfiguredPrefixes :
        /\ Len(name) > Len(p)
        /\ \A k \in 1..Len(p) : name[k] = p[k]
        /\ name[Len(p) + 1] \in Following

Capitalised(name) ==
    [k \in 1..Len(name) |->
        IF k = 1 /\ \E l \in 1..26 : LowerLetters[l] = name[1]
        THEN UpperLetters[CHOOSE l \in 1..26 : LowerLetters[l] = name[1]]
        ELSE name[k]]

\* The diagnostics anchored at the identifier of declarator i.
DiagnosticsAtIdentifier(i) == {k \in 1..Len(reports) : reports[k].node = <<i, "id", 0>>}

\* Exactly one booleanNaming diagnostic at the identifier, suggesting is + Capitalised.
OneSuggestion(i) ==
    /\ Cardinality(DiagnosticsAtIdentifier(i)) = 1
    /\ \A k \in DiagnosticsAtIdentifier(i) :
          /\ reports[k].messageId = "booleanNaming"
          /\ reports[k].data.name = ast[i].id.name
          /\ reports[k].data.prefix = <<"i", "s">>
          /\ reports[k].data.suggestedName = Capitalised(ast[i].id.name)

\* C10 as stated (default options): a declarator whose identifier is annotated
\* boolean yields exactly one booleanNaming diagnostic at the identifier, suggesting
\* is + the capitalised name, when its name does not start with a configured prefix
\* followed by an uppercase letter, and none when it does.
C10_OneDiagnosticUnlessPrefixed ==
    options \in {NoOptions, DefaultOptions} => \A i \in AnnotatedDeclarators :
        IF PrefixedName(ast[i].id.name, UppercaseLetters)
        THEN DiagnosticsAtIdentifier(i) = {}
        ELSE OneSuggestion(i)

\* C10 amended (default options): a declarator whose identifier is annotated boolean
\* yields exactly one booleanNaming diagnostic at the identifier, suggesting is + the
\* capitalised name, when its name is not one of the allowed names (inset, viewport,
\* defaultOpen, open) and does not start with a configured prefix followed by an
\* uppercase letter A-Z; an allowed name or a name so prefixed yields none.
C10_OneDiagnosticUnlessPrefixedOrAllowed ==
    options \in {NoOptions, DefaultOptions} => \A i \in AnnotatedDeclarators :
        IF \/ ast[i].id.name \in ConfiguredAllowedNames
           \/ PrefixedName(ast[i].id.name, AsciiUppercase)
        THEN DiagnosticsAtIdentifier(i) = {}
        ELSE OneSuggestion(i)

\* const isEnabled: boolean next to const enabled: boolean: the walk is over with
\* one diagnostic, for enabled, suggesting Enabled after the prefix is.
C10_Witness ==
    /\ pc = "done"
    /\ options = NoOptions
    /\ Len(ast) = 2
    /\ AnnotatedDeclarators = {1, 2}
    /\ ast[1].id.name = <<"i", "s", "E", "n", "a", "b", "l", "e", "d">>
    /\ ast[2].id.name = <<"e", "n", "a", "b", "l", "e", "d">>
    /\ Len(reports) = 1
    /\ reports[1].node = <<2, "id", 0>>
    /\ reports[1].data.suggestedName = <<"E", "n", "a", "b", "l", "e", "d">>

\* The prefixes and allowed names the session's options configure.
PrefixesOf(opts) ==
    {IF "prefix" \in DOMAIN opts THEN opts.prefix ELSE <<"i", "s">>}
    \cup (IF "allowedPrefixes" \in DOMAIN opts THEN Range(opts.allowedPrefixes)
          ELSE ConfiguredPrefixes)

AllowedNamesIn(opts) ==
    IF "allowedNames" \in DOMAIN opts THEN Range(opts.allowedNames) ELSE ConfiguredAllowedNames

\* The identifiers the rule looks at, by identity, with their names.
NamedIdentifiers ==
    {[id |-> <<i, "id", 0>>, name |-> ast[i].id.name] :
        i \in {j \in 1..Len(ast) : ast[j].type = "VariableDeclarator" /\ ast[j].id.type = "Identifier"}}
    \cup
    UNION {{[id |-> <<i, "param", k>>, name |-> ast[i].params[k].name] :
               k \in {l \in 1..Len(ast[i].params) : ast[i].params[l].type = "Identifier"}} :
           i \in {j \in 1..Len(ast) : ast[j].type \in FunctionKinds}}
    \cup
    {[id |-> <<i, "key", 0>>, name |-> ast[i].key.name] :
        i \in {j \in 1..Len(ast) : ast[j].type = "TSPropertySignature" /\ ast[j].key.type = "Identifier"}}

Reported(id) == \E k \in 1..Len(reports) : reports[k].node = id

\* C11: for any configured options, an identifier whose name starts with the primary
\* prefix or with an entry of allowedPrefixes, immediately followed by a letter A-Z,
\* is never reported, whatever the lengths of the name and of the primary prefix.
C11_PrefixedNameNeverReported ==
    \A x \in NamedIdentifiers :
        (\E p \in PrefixesOf(options) :
            /\ Len(x.name) > Len(p)
            /\ \A k \in 1..Len(p) : x.name[k] = p[k]
            /\ x.name[Len(p) + 1] \in AsciiUppercase)
           => ~Reported(x.id)

\* C12: an identifier whose name is contained in allowedNames yields no diagnostic on
\* any reporting path (variable declarator, function parameter, property signature),
\* whether or not it has a prefix.
C12_AllowedNameNeverReported ==
    \A x \in NamedIdentifiers : x.name \in AllowedNamesIn(options) => ~Reported(x.id)

\* A boolean parameter named open next to const enabled: boolean: only enabled is reported.
C12_Witness ==
    /\ pc = "done"
    /\ options = DefaultOptions
    /\ Len(ast) = 2
    /\ ast[1].type = "ArrowFunctionExpression"
    /\ Len(ast[1].params) = 2
    /\ ast[1].params[2] = Identifier(<<"o", "p", "e", "n">>, "TSBooleanKeyword")
    /\ ast[2].type = "VariableDeclarator"
    /\ Len(reports) = 1
    /\ reports[1].node = <<2, "id", 0>>

\* The declarators of the file with an identifier.
IdentifierDeclarators ==
    {i \in 1..Len(ast) : ast[i].type = "VariableDeclarator" /\ ast[i].id.type = "Identifier"}

\* The initializer of declarator i is true, false or !expression.
BooleanLiteralInit(i) ==
    /\ ast[i].init # NullNode
    /\ \/ ast[i].init.type = "Literal" /\ ast[i].init.valueType = "boolean"
       \/ ast[i].init.type = "UnaryExpression" /\ ast[i].init.operator = "!"

\* The type service resolves the initializer of declarator i to boolean.
InferredBooleanInit(i) ==
    /\ ast[i].init # NullNode
    /\ parserServices
    /\ ast[i].init.resolved = [tsNode |-> TRUE, flags |-> 1048576 + 16]

\* C13: a declarator yields a diagnostic only if its identifier is annotated boolean,
\* or its initializer is true, false or a !expression, or the inferred type of its
\* initializer is boolean; and no declarator yields more than one diagnostic.
C13_OnlyBooleanDeclaratorsAtMostOnce ==
    \A i \in 1..Len(ast) :
        ast[i].type = "VariableDeclarator" =>
            /\ Cardinality(DiagnosticsAtIdentifier(i)) <= 1
            /\ DiagnosticsAtIdentifier(i) # {} =>
                  /\ i \in IdentifierDeclarators
                  /\ \/ i \in AnnotatedDeclarators
                     \/ BooleanLiteralInit(i)
                     \/ InferredBooleanInit(i)

\* const e = call() with call() resolved to boolean is reported; it has no annotation
\* and no literal initializer.
C13_Witness ==
    /\ pc = "done"
    /\ Len(ast) = 1
    /\ IdentifierDeclarators = {1}
    /\ AnnotatedDeclarators = {}
    /\ ast[1].init.type = "CallExpression"
    /\ InferredBooleanInit(1)
    /\ Len(reports) = 1

(***************************************************************************)
(* no-nested-ternary                                                       *)
(***************************************************************************)

\* Most operators (conditionals, casts, calls) in the expression of a session.
MaxOperators == 4

Leaf == [type |-> "Literal"]

\* A test is an identifier or a parenthesised conditional of its own.
Tests ==
    {[type |-> "Identifier"],
     [type |-> "ConditionalExpression", test |-> [type |-> "Identifier"],
      consequent |-> Leaf, alternate |-> Leaf]}

\* x as T, <T>x and f(x)
Wrappers == {"TSAsExpression", "TSTypeAssertion", "CallExpression"}

\* The expressions with at most n operators outside their tests.
RECURSIVE Expressions(_)
Expressions(n) ==
    IF n = 0 THEN {Leaf}
    ELSE {Leaf}
         \cup {[type |-> w, expression |-> e] : w \in Wrappers, e \in Expressions(n - 1)}
         \cup UNION {{[type |-> "ConditionalExpression", test |-> t, consequent |-> c,
                       alternate |-> a] :
                         t \in Tests, c \in Expressions(k), a \in Expressions(n - 1 - k)}
                     : k \in 0..(n - 1)}

\* The children of a node, as <<field, child>>, in visiting order.
childrenOfExpression(node) ==
    IF node.type = "ConditionalExpression"
    THEN <<<<"test", node.test>>, <<"consequent", node.consequent>>,
           <<"alternate", node.alternate>>>>
    ELSE IF node.type \in Wrappers THEN <<<<"expression", node.expression>>>>
    ELSE <<>>

\* The conditional expressions of the tree in the order the host visits them
\* (pre-order), each with its path from the root as identity.
RECURSIVE conditionalVisits(_, _)
RECURSIVE conditionalVisitsOfChildren(_, _, _)

conditionalVisitsOfChildren(children, path, k) ==
    IF k > Len(children) THEN <<>>
    ELSE conditionalVisits(children[k][2], Append(path, children[k][1]))
         \o conditionalVisitsOfChildren(children, path, k + 1)

conditionalVisits(node, path) ==
    (IF node.type = "ConditionalExpression" THEN <<[id |-> path, node |-> node]>> ELSE <<>>)
    \o conditionalVisitsOfChildren(childrenOfExpression(node), path, 1)

\* A slip that does not look through casts.
isConditionalItself(node) == node.type = "ConditionalExpression"

RECURSIVE containsNestedTernary(_)
containsNestedTernary(node) ==
    IF node.type = "ConditionalExpression" THEN TRUE
    ELSE IF node.type = "TSAsExpression" \/ node.type = "TSTypeAssertion"
    THEN containsNestedTernary(node.expression)
    ELSE FALSE

hasNestedTernaryInConsequentOnly(node) == containsNestedTernary(node.consequent)

hasNestedTernary(node) ==
    containsNestedTernary(node.consequent) \/ containsNestedTernary(node.alternate)

InitTernary ==
    /\ \E e \in Expressions(MaxOperators) : ast = <<e>>
    /\ pc = "walk"
    /\ reports = <<>>
    /\ visited = 0
    /\ multiColorCache = Unused
    /\ OcpfIdle /\ JecmIdle /\ BoolIdle /\ InferIdle
    /\ MemoIdle
    /\ HostIdle /\ FormIdle /\ NamingIdle /\ SingleSvgIdle

TernaryOthers == <<ocpfState, jecmState, boolState, multiColorCache, inferState, memoState, hostState, formState, namingState, singleSvgState>>

\* The ConditionalExpression callback on the next conditional of the tree.
TernaryConditionalExpression ==
    /\ pc = "walk"
    /\ visited < Len(conditionalVisits(ast[1], <<>>))
    /\ LET visit == conditionalVisits(ast[1], <<>>)[visited + 1]
       IN reports' = IF hasNestedTernary(visit.node)
                     THEN Append(reports, [node |-> visit.id, messageId |-> "noNestedTernary"])
                     ELSE reports
    /\ visited' = visited + 1
    /\ UNCHANGED <<ast, pc, TernaryOthers>>

\* The traversal of the file is over.
TernaryTraversalEnds ==
    /\ pc = "walk"
    /\ visited = Len(conditionalVisits(ast[1], <<>>))
    /\ pc' = "done"
    /\ UNCHANGED <<ast, reports, visited, TernaryOthers>>

NextTernary == TernaryConditionalExpression \/ TernaryTraversalEnds

SpecTernary == InitTernary /\ [][NextTernary]_vars

\* --- no-nested-ternary: the claims, stated on the expression ---

\* The node at a path below a node.
RECURSIVE NodeAt(_, _)
NodeAt(node, path) ==
    IF path = <<>> THEN node
    ELSE NodeAt(IF path[1] = "test" THEN node.test
                ELSE IF path[1] = "consequent" THEN node.consequent
                ELSE IF path[1] = "alternate" THEN node.alternate
                ELSE node.expression, Tail(path))

\* The paths of all nodes below (and including) a node.
RECURSIVE PathsOf(_)
PathsOf(node) ==
    {<<>>}
    \cup (IF node.type = "ConditionalExpression"
          THEN {<<"test">> \o q : q \in PathsOf(node.test)}
               \cup {<<"consequent">> \o q : q \in PathsOf(node.consequent)}
               \cup {<<"alternate">> \o q : q \in PathsOf(node.alternate)}
          ELSE IF node.type \in {"TSAsExpression", "TSTypeAssertion", "CallExpression"}
          THEN {<<"expression">> \o q : q \in PathsOf(node.expression)}
          ELSE {})

ConditionalPaths == {q \in PathsOf(ast[1]) : NodeAt(ast[1], q).type = "ConditionalExpression"}

DiagnosticsAtConditional(q) == {k \in 1..Len(reports) : reports[k].node = q}

\* C14: once the walk is over, a conditional expression whose consequent or alternate
\* is itself a conditional expression has exactly one noNestedTernary diagnostic,
\* anchored at it (the outer conditional), and a conditional with no conditional
\* expression anywhere below it has none.
C14_NestedTernaryReportedOnce ==
    pc = "done" =>
        \A q \in ConditionalPaths :
            LET node == NodeAt(ast[1], q)
            IN /\ (\/ node.consequent.type = "ConditionalExpression"
                   \/ node.alternate.type = "ConditionalExpression")
                    => /\ Cardinality(DiagnosticsAtConditional(q)) = 1
                       /\ \A k \in DiagnosticsAtConditional(q) :
                             reports[k].messageId = "noNestedTernary"
               /\ (\A below \in PathsOf(node) \ {<<>>} :
                       NodeAt(node, below).type # "ConditionalExpression")
                    => DiagnosticsAtConditional(q) = {}

\* c1 ? x : (c2 ? y : z): one diagnostic, at the outer conditional, none at the inner.
C14_Witness ==
    /\ pc = "done"
    /\ ast[1].type = "ConditionalExpression"
    /\ ast[1].test.type = "Identifier"
    /\ ast[1].consequent.type = "Literal"
    /\ ast[1].alternate.type = "ConditionalExpression"
    /\ ast[1].alternate.consequent.type = "Literal"
    /\ ast[1].alternate.alternate.type = "Literal"
    /\ reports = <<[node |-> <<>>, messageId |-> "noNestedTernary"]>>

(***************************************************************************)
(* Type inference layer (utils/type-helpers), failure boundaries explicit  *)
(***************************************************************************)

\* Most calls of the inference functions on the node of a session.
MaxCalls == 3

\* What a function body does: it returns a value or throws; caches is the state
\* of the four module-level caches afterwards.
Returned(v, caches) == [threw |-> FALSE, value |-> v, caches |-> caches]

Threw(caches) == [threw |-> TRUE, value |-> FALSE, caches |-> caches]

\* try { body } catch { handler }
tryWithoutCatch(body, handler) == body

tryCatch(body, handler) == IF body.threw THEN handler ELSE body

NoCaches ==
    [explicitAnnotationCache |-> <<>>, typeCheckCache |-> <<>>,
     reactNodeTypeCache |-> <<>>, reactNodeAnnotationCache |-> <<>>]

\* How the type service of the session behaves: getParserServices throws (no
\* services), the services have no program, program.getTypeChecker() throws, the
\* services are there for getTypeChecker but throw when asked again, or all is well.
ServiceBehaviours == {"absent", "noProgram", "checkerThrows", "servicesThrowLater", "present"}

\* hasTypeServices
hasTypeServices(service) ==
    tryCatch(IF service = "absent" THEN Threw(NoCaches)
             ELSE Returned(service # "noProgram", NoCaches),
             Returned(FALSE, NoCaches))

\* getTypeChecker: value is whether a checker (not null) is returned.
getTypeChecker(service) ==
    tryCatch(IF ~hasTypeServices(service).value THEN Returned(FALSE, NoCaches)
             ELSE IF service = "checkerThrows" THEN Threw(NoCaches)
             ELSE Returned(TRUE, NoCaches),
             Returned(FALSE, NoCaches))

\* --- resolved types ---

T_ReactNodeText == <<"R", "e", "a", "c", "t", "N", "o", "d", "e">>
T_JsxElementText == <<"J", "S", "X", ".", "E", "l", "e", "m", "e", "n", "t">>
T_ReactReactNodeText == <<"R", "e", "a", "c", "t", ".", "R", "e", "a", "c", "t", "N", "o", "d", "e">>

PlainType(flags, symbol, text) ==
    [faulty |-> FALSE, flags |-> flags, symbol |-> symbol, text |-> text,
     kind |-> "plain", types |-> <<>>]

CompositeType(kind, text, types) ==
    [faulty |-> FALSE, flags |-> 1048576, symbol |-> Null, text |-> text,
     kind |-> kind, types |-> types]

T_boolean == PlainType(1048576 + 16, Null, <<"b", "o", "o", "l", "e", "a", "n">>)
T_string == PlainType(4, Null, <<"s", "t", "r", "i", "n", "g">>)
T_true == PlainType(512, Null, <<"t", "r", "u", "e">>)
T_ReactNode == PlainType(1048576, "ReactNode", T_ReactNodeText)
T_JsxElement == PlainType(524288, "Element", T_JsxElementText)
T_Lookalike == PlainType(524288, "NotReactNodeProps", <<"N", "o", "t", "R", "e", "a", "c", "t", "N", "o", "d", "e", "P", "r", "o", "p", "s">>)
T_Child == CompositeType("union", <<"C", "h", "i", "l", "d">>, <<T_string, T_ReactNode>>)
T_Both == CompositeType("intersection", <<"B", "o", "t", "h">>, <<T_string, T_JsxElement>>)
T_Faulty == [faulty |-> TRUE, flags |-> 0, symbol |-> Null, text |-> <<>>,
             kind |-> "plain", types |-> <<>>]

ResolvedTypes ==
    {T_boolean, T_string, T_true, T_ReactNode, T_JsxElement, T_Lookalike, T_Child,
     T_Both, T_Faulty}

\* What the service does for a node: esTreeNodeToTSNodeMap.get throws or finds
\* nothing, getTypeAtLocation throws or finds nothing, or a type is resolved.
Resolutions ==
    [outcome : {"mapThrows", "unmapped", "typeThrows", "noType"}, type : {T_Faulty}]
    \cup [outcome : {"resolved"}, type : ResolvedTypes]

\* --- annotations and nodes ---

TypeName(left, right) ==
    [type |-> IF left = Null THEN "Identifier" ELSE "TSQualifiedName",
     left |-> left, name |-> right]

\* node.typeAnnotation: kind is typeAnnotation.typeAnnotation.type, Null without an
\* annotation, "malformed" for a TSTypeAnnotation that lacks its inner type.
Annotation(kind, typeName) == [kind |-> kind, typeName |-> typeName]

NoAnnotation == Annotation(Null, TypeName(Null, Null))

Annotations ==
    {NoAnnotation,
     Annotation("malformed", TypeName(Null, Null)),
     Annotation("TSBooleanKeyword", TypeName(Null, Null)),
     Annotation("TSStringKeyword", TypeName(Null, Null)),
     Annotation("TSTypeReference", TypeName(Null, "ReactNode")),
     Annotation("TSTypeReference", TypeName(Null, "JSXElement")),
     Annotation("TSTypeReference", TypeName(Null, "Props")),
     Annotation("TSTypeReference", TypeName("React", "ReactNode")),
     Annotation("TSTypeReference", TypeName("JSX", "Element")),
     Annotation("TSTypeReference", TypeName("React", "FC")),
     Annotation("TSQualifiedName", TypeName("React", "ReactNode"))}

\* A node as the inference functions see it: holder is the identifier (id or key)
\* of a declarator or property, NullNode where the node has none.
InferenceNode(type, holder, annotation, resolution) ==
    [type |-> type, holder |-> holder, typeAnnotation |-> annotation, resolved |-> resolution]

AnnotatedIdentifier(annotation) == [type |-> "Identifier", typeAnnotation |-> annotation]

InferenceNodes ==
    UNION {
      {InferenceNode("Identifier", NullNode, a, r) : a \in Annotations}
      \cup {InferenceNode("TSPropertySignature", NullNode, a, r) : a \in Annotations}
      \cup {InferenceNode("VariableDeclarator", AnnotatedIdentifier(a), NoAnnotation, r) :
               a \in Annotations}
      \cup {InferenceNode("Property", AnnotatedIdentifier(a), NoAnnotation, r) :
               a \in Annotations}
      \cup {InferenceNode("VariableDeclarator", NullNode, NoAnnotation, r),
            InferenceNode("Property", NullNode, NoAnnotation, r),
            InferenceNode("CallExpression", NullNode, NoAnnotation, r)}
      : r \in Resolutions}

\* --- explicit annotations ---

\* The switch of hasExplicitBooleanAnnotation: reading a field of a missing id or of
\* a missing inner type throws (the Identifier case reads with ?. throughout).
booleanAnnotationSwitch(node, caches) ==
    CASE node.type = "VariableDeclarator" ->
           IF node.holder = NullNode THEN Threw(caches)
           ELSE IF node.holder.type # "Identifier" THEN Returned(FALSE, caches)
           ELSE IF node.holder.typeAnnotation.kind = "malformed" THEN Threw(caches)
           ELSE Returned(node.holder.typeAnnotation.kind = "TSBooleanKeyword", caches)
      [] node.type = "Identifier" ->
           Returned(node.typeAnnotation.kind = "TSBooleanKeyword", caches)
      [] node.type = "TSPropertySignature" ->
           IF node.typeAnnotation.kind = "malformed" THEN Threw(caches)
           ELSE Returned(node.typeAnnotation.kind = "TSBooleanKeyword", caches)
      [] OTHER -> Returned(FALSE, caches)

setCache(caches, which, id, v) == [caches EXCEPT ![which] = MapSet(caches[which], id, v)]

\* A slip that tests the cached value for truth instead of for undefined.
cacheHitWhenTruthy(cache, id) == MapHas(cache, id) /\ MapGet(cache, id)

\* const cached = cache.get(node); if (cached !== undefined)
cacheHit(cache, id) == MapHas(cache, id)

\* hasExplicitBooleanAnnotation
hasExplicitBooleanAnnotationGuarded(node, id, caches) ==
    IF cacheHit(caches.explicitAnnotationCache, id)
    THEN Returned(MapGet(caches.explicitAnnotationCache, id), caches)
    ELSE tryCatch(
           LET found == booleanAnnotationSwitch(node, caches)
           IN IF found.threw THEN found
              ELSE Returned(found.value,
                            setCache(caches, "explicitAnnotationCache", id, found.value)),
           Returned(FALSE, setCache(caches, "explicitAnnotationCache", id, FALSE)))

KnownQualifiedNames == {<<"React", "ReactNode">>, <<"JSX", "Element">>}

\* isReactNodeTypeAnnotation
isReactNodeTypeAnnotation(annotation) ==
    tryCatch(
      IF annotation.kind = "malformed" THEN Threw(NoCaches)
      ELSE IF /\ annotation.kind = "TSQualifiedName"
              /\ <<annotation.typeName.left, annotation.typeName.name>> \in KnownQualifiedNames
      THEN Returned(TRUE, NoCaches)
      ELSE IF /\ annotation.kind = "TSTypeReference"
              /\ annotation.typeName.type = "Identifier"
              /\ annotation.typeName.name \in {"ReactNode", "JSXElement"}
      THEN Returned(TRUE, NoCaches)
      ELSE IF /\ annotation.kind = "TSTypeReference"
              /\ annotation.typeName.type = "TSQualifiedName"
              /\ <<annotation.typeName.left, annotation.typeName.name>> \in KnownQualifiedNames
      THEN Returned(TRUE, NoCaches)
      ELSE Returned(FALSE, NoCaches),
      Returned(FALSE, NoCaches))

\* The switch of hasExplicitReactNodeAnnotation.
reactNodeAnnotationSwitch(node, caches) ==
    CASE node.type \in {"VariableDeclarator", "Property"} ->
           IF node.holder = NullNode THEN Threw(caches)
           ELSE IF node.holder.type # "Identifier" THEN Returned(FALSE, caches)
           ELSE IF node.holder.typeAnnotation.kind = Null THEN Returned(FALSE, caches)
           ELSE Returned(isReactNodeTypeAnnotation(node.holder.typeAnnotation).value, caches)
      [] node.type \in {"Identifier", "TSPropertySignature"} ->
           IF node.typeAnnotation.kind = Null THEN Returned(FALSE, caches)
           ELSE Returned(isReactNodeTypeAnnotation(node.typeAnnotation).value, caches)
      [] OTHER -> Returned(FALSE, caches)

\* hasExplicitReactNodeAnnotation
hasExplicitReactNodeAnnotation(node, id, caches) ==
    IF cacheHit(caches.reactNodeAnnotationCache, id)
    THEN Returned(MapGet(caches.reactNodeAnnotationCache, id), caches)
    ELSE tryCatch(
           LET found == reactNodeAnnotationSwitch(node, caches)
           IN IF found.threw THEN found
              ELSE Returned(found.value,
                            setCache(caches, "reactNodeAnnotationCache", id, found.value)),
           Returned(FALSE, setCache(caches, "reactNodeAnnotationCache", id, FALSE)))

\* --- checker-backed inference ---

\* The fallback: the explicit annotation check, whose result is cached as the
\* inference result too.
booleanFallbackToFalse(node, id, caches) ==
    Returned(FALSE, setCache(caches, "typeCheckCache", id, FALSE))

booleanFallback(node, id, caches) ==
    LET explicit == hasExplicitBooleanAnnotationGuarded(node, id, caches)
    IN IF explicit.threw THEN explicit
       ELSE Returned(explicit.value,
                     setCache(explicit.caches, "typeCheckCache", id, explicit.value))

\* isBooleanType
isBooleanTypeGuarded(node, id, service, caches) ==
    IF cacheHit(caches.typeCheckCache, id)
    THEN Returned(MapGet(caches.typeCheckCache, id), caches)
    ELSE tryCatch(
           IF getTypeChecker(service).value
           THEN tryCatch(
                  IF service = "servicesThrowLater" THEN Threw(caches)
                  ELSE IF node.resolved.outcome = "mapThrows" THEN Threw(caches)
                  ELSE IF node.resolved.outcome = "unmapped"
                  THEN booleanFallback(node, id, caches)
                  ELSE IF node.resolved.outcome = "typeThrows" THEN Threw(caches)
                  ELSE IF node.resolved.outcome = "noType"
                  THEN booleanFallback(node, id, caches)
                  ELSE LET result == hasBooleanFlag(node.resolved.type.flags)
                       IN Returned(result, setCache(caches, "typeCheckCache", id, result)),
                  booleanFallback(node, id, caches))
           ELSE booleanFallback(node, id, caches),
           booleanFallback(node, id, caches))

\* isReactNodeTypeInChecker
RECURSIVE isReactNodeTypeInChecker(_)
isReactNodeTypeInChecker(type) ==
    tryCatch(
      IF type.faulty THEN Threw(NoCaches)
      ELSE IF type.symbol = "ReactNode" THEN Returned(TRUE, NoCaches)
      ELSE IF \/ includes(type.text, T_ReactNodeText)
              \/ includes(type.text, T_JsxElementText)
              \/ includes(type.text, T_ReactReactNodeText)
      THEN Returned(TRUE, NoCaches)
      ELSE IF /\ type.kind \in {"union", "intersection"}
              /\ \E k \in 1..Len(type.types) : isReactNodeTypeInChecker(type.types[k]).value
      THEN Returned(TRUE, NoCaches)
      ELSE Returned(FALSE, NoCaches),
      Returned(FALSE, NoCaches))

reactNodeFallback(node, id, caches) ==
    LET explicit == hasExplicitReactNodeAnnotation(node, id, caches)
    IN IF explicit.threw THEN explicit
       ELSE Returned(explicit.value,
                     setCache(explicit.caches, "reactNodeTypeCache", id, explicit.value))

\* isReactNodeType
isReactNodeType(node, id, service, caches) ==
    IF cacheHit(caches.reactNodeTypeCache, id)
    THEN Returned(MapGet(caches.reactNodeTypeCache, id), caches)
    ELSE tryCatch(
           IF getTypeChecker(service).value
           THEN tryCatch(
                  IF service = "servicesThrowLater" THEN Threw(caches)
                  ELSE IF node.resolved.outcome = "mapThrows" THEN Threw(caches)
                  ELSE IF node.resolved.outcome = "unmapped"
                  THEN reactNodeFallback(node, id, caches)
                  ELSE IF node.resolved.outcome = "typeThrows" THEN Threw(caches)
                  ELSE IF node.resolved.outcome = "noType"
                  THEN reactNodeFallback(node, id, caches)
                  ELSE LET result == isReactNodeTypeInChecker(node.resolved.type).value
                       IN Returned(result, setCache(caches, "reactNodeTypeCache", id, result)),
                  reactNodeFallback(node, id, caches))
           ELSE reactNodeFallback(node, id, caches),
           reactNodeFallback(node, id, caches))

\* --- a session that queries one node ---

InitInfer ==
    /\ \E node \in InferenceNodes : ast = <<node>>
    /\ pc = "walk"
    /\ reports = <<>>
    /\ parserServices \in ServiceBehaviours
    /\ options = Unused
    /\ explicitAnnotationCache = <<>>
    /\ typeCheckCache = <<>>
    /\ reactNodeTypeCache = <<>>
    /\ reactNodeAnnotationCache = <<>>
    /\ calls = <<>>
    /\ OcpfIdle /\ JecmIdle /\ SvgIdle
    /\ MemoIdle
    /\ HostIdle /\ FormIdle /\ NamingIdle /\ SingleSvgIdle

InferOthers == <<ocpfState, jecmState, svgState, memoState, hostState, formState, namingState, singleSvgState>>

currentCaches ==
    [explicitAnnotationCache |-> explicitAnnotationCache, typeCheckCache |-> typeCheckCache,
     reactNodeTypeCache |-> reactNodeTypeCache,
     reactNodeAnnotationCache |-> reactNodeAnnotationCache]

\* A rule calls one of the functions on the node; the call is logged with its outcome.
InferCall(function, outcome) ==
    /\ Len(calls) < MaxCalls
    /\ calls' = Append(calls, [function |-> function, threw |-> outcome.threw,
                               value |-> outcome.value])
    /\ explicitAnnotationCache' = outcome.caches.explicitAnnotationCache
    /\ typeCheckCache' = outcome.caches.typeCheckCache
    /\ reactNodeTypeCache' = outcome.caches.reactNodeTypeCache
    /\ reactNodeAnnotationCache' = outcome.caches.reactNodeAnnotationCache
    /\ UNCHANGED <<ast, pc, reports, options, parserServices, InferOthers>>

InferIsBooleanType ==
    InferCall("isBooleanType", isBooleanTypeGuarded(ast[1], 1, parserServices, currentCaches))

InferIsReactNodeType ==
    InferCall("isReactNodeType", isReactNodeType(ast[1], 1, parserServices, currentCaches))

InferHasExplicitBooleanAnnotation ==
    InferCall("hasExplicitBooleanAnnotation",
              hasExplicitBooleanAnnotationGuarded(ast[1], 1, currentCaches))

InferHasExplicitReactNodeAnnotation ==
    InferCall("hasExplicitReactNodeAnnotation",
              hasExplicitReactNodeAnnotation(ast[1], 1, currentCaches))

NextInfer ==
    \/ InferIsBooleanType
    \/ InferIsReactNodeType
    \/ InferHasExplicitBooleanAnnotation
    \/ InferHasExplicitReactNodeAnnotation

SpecInfer == InitInfer /\ [][NextInfer]_vars

(***************************************************************************)
(* Type inference claims                                                   *)
(***************************************************************************)

\* The annotation the explicit checks look at: that of the id of a declarator (and,
\* for the ReactNode check, of the key of a property), else the node's own.
BooleanAnnotationOf(node) ==
    IF node.type = "VariableDeclarator"
    THEN (IF node.holder = NullNode THEN NoAnnotation ELSE node.holder.typeAnnotation)
    ELSE IF node.type \in {"Identifier", "TSPropertySignature"} THEN node.typeAnnotation
    ELSE NoAnnotation

ReactNodeAnnotationOf(node) ==
    IF node.type \in {"VariableDeclarator", "Property"}
    THEN (IF node.holder = NullNode THEN NoAnnotation ELSE node.holder.typeAnnotation)
    ELSE IF node.type \in {"Identifier", "TSPropertySignature"} THEN node.typeAnnotation
    ELSE NoAnnotation

IsExplicitBoolean(node) == BooleanAnnotationOf(node).kind = "TSBooleanKeyword"

IsExplicitReactNode(node) ==
    LET annotation == ReactNodeAnnotationOf(node)
    IN /\ annotation.kind \in {"TSTypeReference", "TSQualifiedName"}
       /\ \/ annotation.typeName.left = Null /\ annotation.typeName.name = "ReactNode"
          \/ annotation.typeName.left = Null /\ annotation.typeName.name = "JSXElement"
          \/ annotation.typeName.left = "React" /\ annotation.typeName.name = "ReactNode"
          \/ annotation.typeName.left = "JSX" /\ annotation.typeName.name = "Element"

\* No checker can be had, or the service fails on this node.
NoTypeResolution ==
    \/ parserServices \in {"absent", "noProgram", "checkerThrows", "servicesThrowLater"}
    \/ ast[1].resolved.outcome \in {"mapThrows", "unmapped", "typeThrows", "noType"}

CallsOf(function) == {i \in 1..Len(calls) : calls[i].function = function}

\* C15: without type resolution for the node (no service, no checker, the node is
\* not mapped, its type is not resolved, or the service throws), isBooleanType and
\* isReactNodeType return what the explicit annotation of the node says, hence
\* false for a node without a matching annotation.
C15_FallbackIsExplicitAnnotation ==
    NoTypeResolution =>
        /\ \A i \in CallsOf("isBooleanType") :
              ~calls[i].threw /\ calls[i].value = IsExplicitBoolean(ast[1])
        /\ \A i \in CallsOf("isReactNodeType") :
              ~calls[i].threw /\ calls[i].value = IsExplicitReactNode(ast[1])

C15_Witness ==
    /\ parserServices = "checkerThrows"
    /\ ast[1].type = "VariableDeclarator"
    /\ IsExplicitReactNode(ast[1])
    /\ \E i \in CallsOf("isReactNodeType") : calls[i].value
    /\ \E i \in CallsOf("isBooleanType") : ~calls[i].value

\* C16: whatever the service does and whatever the node looks like, every call of
\* isBooleanType, isReactNodeType, hasExplicitBooleanAnnotation and
\* hasExplicitReactNodeAnnotation returns a boolean; none throws.
C16_InferenceNeverThrows ==
    \A i \in 1..Len(calls) : ~calls[i].threw /\ calls[i].value \in BOOLEAN

C16_Witness ==
    /\ parserServices = "present"
    /\ ast[1].type = "VariableDeclarator"
    /\ ast[1].holder = NullNode
    /\ ast[1].resolved.outcome = "typeThrows"
    /\ CallsOf("isBooleanType") # {}
    /\ CallsOf("hasExplicitReactNodeAnnotation") # {}

(***************************************************************************)
(* memoized-export                                                         *)
(***************************************************************************)

\* Most nodes (svg or other JSX elements, the default export) of a file.
MaxMemoNodes == 3

\* --- the file: its program node, then the nodes handed to the callbacks ---

\* What the file imports from 'react'.
ReactImports == {"none", "namedWithMemo", "namedWithoutMemo", "namespace", "default"}

\* Where the react import (if any) and the default export lie in the text.
Layouts ==
    {[importRange |-> <<0, 2>>, exportRange |-> <<2, 5>>, length |-> 5],
     [importRange |-> <<0, 2>>, exportRange |-> <<3, 6>>, length |-> 7],
     [importRange |-> <<3, 5>>, exportRange |-> <<0, 3>>, length |-> 5]}

LayoutsWithoutImport ==
    {[importRange |-> <<Null>>, exportRange |-> <<0, 3>>, length |-> 3],
     [importRange |-> <<Null>>, exportRange |-> <<1, 4>>, length |-> 5]}

Programs ==
    {[type |-> "Program", reactImport |-> "none", layout |-> l] : l \in LayoutsWithoutImport}
    \cup {[type |-> "Program", reactImport |-> i, layout |-> l] :
             i \in ReactImports \ {"none"}, l \in Layouts}

MemoJsx(nameType, name) ==
    [type |-> "JSXElement",
     openingElement |-> [type |-> "JSXOpeningElement", name |-> [type |-> nameType, name |-> name]]]

MemoJsxNodes ==
    {MemoJsx("JSXIdentifier", "svg"), MemoJsx("JSXIdentifier", "Svg"),
     MemoJsx("JSXIdentifier", "path"), MemoJsx("JSXMemberExpression", Null)}

Param(type, name, annotated, optional) ==
    [type |-> type, name |-> name, typeAnnotation |-> annotated, optional |-> optional]

ParamLists ==
    {<<>>,
     <<Param("Identifier", "props", FALSE, FALSE)>>,
     <<Param("Identifier", "props", TRUE, FALSE)>>,
     <<Param("Identifier", "props", FALSE, TRUE)>>,
     <<Param("ObjectPattern", Null, FALSE, FALSE)>>,
     <<Param("Identifier", "props", FALSE, FALSE), Param("Identifier", "ref", FALSE, FALSE)>>}

\* The exported declaration. callsWithFirstParam: the function text holds a call
\* such as spread(props), written with the first parameter alone in parentheses.
Declaration(type, name, params, callsWithFirstParam, callee) ==
    [type |-> type, name |-> name, params |-> params,
     callsWithFirstParam |-> callsWithFirstParam, callee |-> callee]

NoCallee == [type |-> Null, name |-> Null]

Declarations ==
    {Declaration("Identifier", "Icon", <<>>, FALSE, NoCallee),
     Declaration("FunctionDeclaration", Null, <<>>, FALSE, NoCallee),
     Declaration("ArrowFunctionExpression", Null, <<>>, FALSE, NoCallee),
     Declaration("FunctionExpression", Null, <<>>, FALSE, NoCallee),
     Declaration("ClassDeclaration", "Icon", <<>>, FALSE, NoCallee),
     Declaration("CallExpression", Null, <<>>, FALSE, [type |-> "Identifier", name |-> "memo"]),
     Declaration("CallExpression", Null, <<>>, FALSE, [type |-> "Identifier", name |-> "forwardRef"]),
     Declaration("CallExpression", Null, <<>>, FALSE, [type |-> "MemberExpression", name |-> Null])}
    \cup {Declaration("FunctionDeclaration", "Icon", p, c, NoCallee) :
             p \in ParamLists, c \in BOOLEAN}

ExportDefaultDeclaration(declaration, range) ==
    [type |-> "ExportDefaultDeclaration", declaration |-> declaration, range |-> range]

\* --- helpers of utils/ast-helpers ---

validateExportDefaultDeclaration(node) ==
    node.type = "ExportDefaultDeclaration" /\ node.declaration.type # Null

\* analyzeReactImport: the style of the react import and the import node.
analyzeReactImport(program) ==
    [style |-> IF program.reactImport \in {"namespace", "default"} THEN "namespace"
               ELSE IF program.reactImport = "none" THEN "none" ELSE "named",
     hasMemo |-> program.reactImport = "namedWithMemo",
     importNode |-> IF program.reactImport = "none" THEN NullNode
                    ELSE [type |-> "ImportDeclaration", range |-> program.layout.importRange]]

\* selectMemoStrategy: React.memo through a namespace, else memo (imported if it
\* is not yet).
selectMemoStrategy(importAnalysis) ==
    [memoReference |-> IF importAnalysis.style = "namespace" THEN "React.memo" ELSE "memo",
     needsImport |-> importAnalysis.style # "namespace" /\ ~importAnalysis.hasMemo]

\* updateImports: nothing, a rewrite of the named import, or a new import at the
\* top of the file.
updateImports(memoStrategy, importNode, program) ==
    [fixes |->
        IF ~memoStrategy.needsImport THEN <<>>
        ELSE IF importNode = NullNode
        THEN <<[range |-> <<0, 0>>, text |-> [kind |-> "insertImport"]]>>
        ELSE <<[range |-> importNode.range, text |-> [kind |-> "rewriteImport"]]>>]

detectIconEnvironment(program, svg) ==
    [environment |-> IF svg # NullNode /\ svg.openingElement.name.name = "Svg"
                     THEN "react-native" ELSE "web"]

getTypeAnnotationStrategy(environment, style) ==
    [propsType |-> <<environment, style>>]

\* --- the rule ---

\* A slip that resolves a name for an exported identifier only.
exportedIdentifierName(declaration) ==
    IF declaration.type = "Identifier" THEN declaration.name ELSE Null

\* getComponentName of the icon rules: the name the export can be wrapped by.
getExportedComponentName(declaration) ==
    IF declaration.type = "Identifier" THEN declaration.name
    ELSE IF declaration.type = "FunctionDeclaration" /\ declaration.name # Null
    THEN declaration.name
    ELSE Null

\* functionText.replace(pattern, ...): where the first match of the pattern lies.
\* "( name )" is the whole parameter list of a function with that one parameter;
\* with more parameters, or with name?, the first match is a call in the body, if
\* there is one.
annotatedFunctionText(functionNode, propsType) ==
    LET place ==
          IF Len(functionNode.params) > 0
          THEN LET firstParam == functionNode.params[1]
               IN IF firstParam.type = "Identifier" /\ ~firstParam.typeAnnotation
                  THEN (IF Len(functionNode.params) = 1 /\ ~firstParam.optional THEN "params"
                        ELSE IF functionNode.callsWithFirstParam THEN "body"
                        ELSE "none")
                  ELSE "none"
          ELSE "params"
    IN [annotated |-> place, propsType |-> IF place = "none" THEN <<>> ELSE propsType]

\* A slip that leaves the import edits out of the fix.
fixWithoutImports(program, node, svg, exportedName) ==
    LET importAnalysis == analyzeReactImport(program)
        memoStrategy == selectMemoStrategy(importAnalysis)
    IN <<[range |-> node.range,
          text |-> [kind |-> "export", functionText |-> Null,
                    memoReference |-> memoStrategy.memoReference,
                    componentName |-> exportedName]]>>

\* The fix callback: the edits it returns, in order.
fix(program, node, svg, exportedName) ==
    LET importAnalysis == analyzeReactImport(program)
        envDetection == detectIconEnvironment(program, svg)
        memoStrategy == selectMemoStrategy(importAnalysis)
        typeStrategy == getTypeAnnotationStrategy(envDetection.environment, importAnalysis.style)
        importUpdate == updateImports(memoStrategy, importAnalysis.importNode, program)
        rewrite ==
          IF node.declaration.type = "FunctionDeclaration"
          THEN [kind |-> "export",
                functionText |-> annotatedFunctionText(node.declaration, typeStrategy.propsType),
                memoReference |-> memoStrategy.memoReference,
                componentName |-> exportedName]
          ELSE [kind |-> "export", functionText |-> Null,
                memoReference |-> memoStrategy.memoReference,
                componentName |-> exportedName]
    IN importUpdate.fixes \o <<[range |-> node.range, text |-> rewrite]>>

\* checkExport: the reports it makes for the export at index id of the file.
checkExport(file, id, svg) ==
    LET node == file[id]
    IN IF ~validateExportDefaultDeclaration(node) THEN <<>>
       ELSE LET isMemoized ==
                  /\ node.declaration.type = "CallExpression"
                  /\ node.declaration.callee.type = "Identifier"
                  /\ node.declaration.callee.name = "memo"
                exportedName == getExportedComponentName(node.declaration)
            IN IF ~isMemoized /\ exportedName # Null
               THEN <<[node |-> id, messageId |-> "memoizeExport",
                       componentName |-> exportedName,
                       fix |-> fix(file[1], node, IF svg = 0 THEN NullNode ELSE file[svg],
                                   exportedName)]>>
               ELSE <<>>

isSvgRoot(node) ==
    /\ node.openingElement.name.type = "JSXIdentifier"
    /\ node.openingElement.name.name \in {"svg", "Svg"}

\* A slip that keeps the export pending after it was checked.
onSvgKeepingExport(file, id, pendingExport, lastSvg) ==
    IF isSvgRoot(file[id])
    THEN [svgNode |-> id, exportNode |-> pendingExport,
          reports |-> IF pendingExport # 0 THEN checkExport(file, pendingExport, id) ELSE <<>>]
    ELSE [svgNode |-> lastSvg, exportNode |-> pendingExport, reports |-> <<>>]

\* Body of the JSXElement callback for the node at index id of the file.
onSvg(file, id, pendingExport, lastSvg) ==
    IF isSvgRoot(file[id])
    THEN [svgNode |-> id, exportNode |-> 0,
          reports |-> IF pendingExport # 0 THEN checkExport(file, pendingExport, id) ELSE <<>>]
    ELSE [svgNode |-> lastSvg, exportNode |-> pendingExport, reports |-> <<>>]

InitMemo ==
    /\ \E program \in Programs : ast = <<program>>
    /\ pc = "walk"
    /\ reports = <<>>
    /\ exportNode = 0
    /\ svgNode = 0
    /\ OcpfIdle /\ JecmIdle /\ SvgIdle /\ BoolIdle /\ InferIdle
    /\ HostIdle /\ FormIdle /\ NamingIdle /\ SingleSvgIdle

MemoOthers == <<ocpfState, jecmState, svgState, boolState, inferState, hostState, formState, namingState, singleSvgState>>

MemoJSXElement ==
    /\ pc = "walk"
    /\ Len(ast) <= MaxMemoNodes
    /\ \E node \in MemoJsxNodes :
          LET file == Append(ast, node)
              after == onSvg(file, Len(file), exportNode, svgNode)
          IN /\ ast' = file
             /\ svgNode' = after.svgNode
             /\ exportNode' = after.exportNode
             /\ reports' = reports \o after.reports
    /\ UNCHANGED <<pc, MemoOthers>>

\* A module has at most one default export.
MemoExportDefaultDeclaration ==
    /\ pc = "walk"
    /\ Len(ast) <= MaxMemoNodes
    /\ \A i \in 1..Len(ast) : ast[i].type # "ExportDefaultDeclaration"
    /\ \E declaration \in Declarations :
          ast' = Append(ast, ExportDefaultDeclaration(declaration, ast[1].layout.exportRange))
    /\ exportNode' = Len(ast) + 1
    /\ UNCHANGED <<pc, reports, svgNode, MemoOthers>>

MemoProgramExit ==
    /\ pc = "walk"
    /\ pc' = "done"
    /\ reports' = reports \o (IF exportNode # 0 THEN checkExport(ast, exportNode, svgNode)
                              ELSE <<>>)
    /\ UNCHANGED <<ast, exportNode, svgNode, MemoOthers>>

NextMemo ==
    \/ MemoJSXElement
    \/ MemoExportDefaultDeclaration
    \/ MemoProgramExit

SpecMemo == InitMemo /\ [][NextMemo]_vars

(***************************************************************************)
(* memoized-export claims                                                  *)
(***************************************************************************)

DefaultExports == {i \in 2..Len(ast) : ast[i].type = "ExportDefaultDeclaration"}

SvgRoots ==
    {i \in 2..Len(ast) :
        /\ ast[i].type = "JSXElement"
        /\ ast[i].openingElement.name.type = "JSXIdentifier"
        /\ ast[i].openingElement.name.name \in {"svg", "Svg"}}

\* export default Icon;  or  export default function Icon(...) {...}
NamedAndNotMemoized(i) ==
    \/ ast[i].declaration.type = "Identifier"
    \/ ast[i].declaration.type = "FunctionDeclaration" /\ ast[i].declaration.name # Null

MemoizeExportAt(i) ==
    {k \in 1..Len(reports) : reports[k].messageId = "memoizeExport" /\ reports[k].node = i}

\* C17: a default export that is not memoized and has a name gets exactly one
\* memoizeExport diagnostic, anchored at the export: as soon as an svg root comes
\* after it, or at the end of the traversal when the svg came first; further svg
\* elements never add a second one.
C17_ExactlyOneDiagnosticPerExport ==
    /\ Len(reports) <= 1
    /\ \A e \in DefaultExports :
          (/\ NamedAndNotMemoized(e)
           /\ SvgRoots # {}
           /\ pc = "done" \/ \E v \in SvgRoots : v > e)
          => Len(reports) = 1 /\ Cardinality(MemoizeExportAt(e)) = 1

C17_Witness ==
    /\ pc = "done"
    /\ Len(ast) = 4
    /\ DefaultExports = {3}
    /\ NamedAndNotMemoized(3)
    /\ SvgRoots = {2, 4}
    /\ Cardinality(MemoizeExportAt(3)) = 1

EditsOfKind(edits, kinds) == {k \in 1..Len(edits) : edits[k].text.kind \in kinds}

Disjoint(a, b) == a[2] <= b[1] \/ b[2] <= a[1]

\* The parameter list is () or one plain identifier without a type.
LacksParameterType(declaration) ==
    /\ declaration.type = "FunctionDeclaration"
    /\ \/ declaration.params = <<>>
       \/ /\ Len(declaration.params) = 1
          /\ declaration.params[1].type = "Identifier"
          /\ ~declaration.params[1].typeAnnotation
          /\ ~declaration.params[1].optional

Missing == NullNode

MalformedElementNodes ==
    {Element("JSXIdentifier", "TestComponent",
             <<Attr("TestProp", Container("JSXElement", "Icon")), Missing>>, Inside(FnCaller)),
     Element("JSXIdentifier", "TestComponent",
             <<Missing, Attr("TestProp", Container("JSXElement", "Icon"))>>, Inside(FnCaller)),
     Element("JSXIdentifier", "Sub", <<Missing>>, Inside(FnCaller)),
     [type |-> "JSXElement",
      openingElement |-> [type |-> "JSXOpeningElement", name |-> Missing, attributes |-> <<>>],
      parents |-> Inside(FnCaller)]}

FaultElementNodes ==
    {Element("JSXIdentifier", "TestComponent", a, Inside(FnCaller)) : a \in PassAttributes}
    \cup {Element("JSXIdentifier", "TestProp", <<>>, Inside(FnArrow))}
    \cup MalformedElementNodes

Conditional(consequent, alternate) ==
    [type |-> "ConditionalExpression", test |-> [type |-> "Identifier"],
     consequent |-> consequent, alternate |-> alternate, parents |-> <<>>]

FaultConditionalNodes ==
    {Conditional(Leaf, Leaf),
     Conditional(Conditional(Leaf, Leaf), Leaf),
     Conditional(Leaf, [type |-> "TSAsExpression", expression |-> Conditional(Leaf, Leaf)]),
     Conditional(Missing, Leaf),
     Conditional(Leaf, [type |-> "TSAsExpression", expression |-> Missing])}

\* for (const attr of node.attributes) with attr.type read first: the entries
\* written before the throw stay in the map.
RECURSIVE recordAttributesRaising(_, _)
recordAttributesRaising(propValues, attrs) ==
    IF attrs = <<>> THEN [threw |-> FALSE, propValues |-> propValues]
    ELSE LET attr == Head(attrs)
         IN IF attr = Missing THEN [threw |-> TRUE, propValues |-> propValues]
            ELSE LET propName == IF attr.type = "JSXAttribute" THEN getAttributeName(attr)
                                 ELSE Null
                     next == IF propName # Null /\ passedKind(attr) # Null
                             THEN MapSet(propValues, propName, passedKind(attr))
                             ELSE propValues
                 IN recordAttributesRaising(next, Tail(attrs))

\* The JSXOpeningElement callback of jsx-element-component-mismatch with its
\* try/catch: threw says that the body raised and the catch logged it; values is
\* componentPropValues when the callback returns.
onJSXOpeningElementCaught(values, node) ==
    IF node.name = Missing THEN [threw |-> TRUE, values |-> values]
    ELSE LET name == getComponentName(node)
         IN IF name = Null THEN [threw |-> FALSE, values |-> values]
            ELSE LET created == IF MapHas(values, name) THEN values
                                ELSE MapSet(values, name, <<>>)
                     recorded == recordAttributesRaising(MapGet(created, name), node.attributes)
                 IN [threw |-> recorded.threw,
                     values |-> MapSet(created, name, recorded.propValues)]

RECURSIVE containsNestedTernaryRaising(_)
containsNestedTernaryRaising(node) ==
    IF node = Missing THEN [threw |-> TRUE, value |-> FALSE]
    ELSE IF node.type = "ConditionalExpression" THEN [threw |-> FALSE, value |-> TRUE]
    ELSE IF node.type = "TSAsExpression" \/ node.type = "TSTypeAssertion"
    THEN containsNestedTernaryRaising(node.expression)
    ELSE [threw |-> FALSE, value |-> FALSE]

hasNestedTernaryRaising(node) ==
    LET consequent == containsNestedTernaryRaising(node.consequent)
    IN IF consequent.threw \/ consequent.value THEN consequent
       ELSE containsNestedTernaryRaising(node.alternate)

InitFault ==
    /\ ast = <<>>
    /\ pc = "walk"
    /\ reports = <<>>
    /\ pending = <<>>
    /\ componentPropValues = <<>>
    /\ componentPropUsages = <<>>
    /\ calls = <<>>
    /\ reactNodeTypeCache = Unused
    /\ reactNodeAnnotationCache = Unused
    /\ OcpfIdle /\ SvgIdle /\ BoolIdle /\ MemoIdle /\ HostIdle /\ FormIdle /\ NamingIdle /\ SingleSvgIdle

FaultOthers ==
    <<ocpfState, svgState, boolState, memoState, hostState, formState, namingState, singleSvgState,
      reactNodeTypeCache, reactNodeAnnotationCache>>

Call(function, threw, propagated) ==
    [function |-> function, threw |-> threw, propagated |-> propagated]

\* jsx-element-component-mismatch: JSXElement (inside try/catch).
FaultJSXElement ==
    /\ pc = "walk"
    /\ \/ /\ pending = <<>>
          /\ Len(ast) < MaxJsxNodes
          /\ \E node \in FaultElementNodes :
                /\ ast' = Append(ast, node)
                /\ componentPropUsages' = onJSXElement(componentPropUsages, node, <<Len(ast) + 1>>)
                /\ pending' = childVisits(node, <<Len(ast) + 1>>)
       \/ /\ pending # <<>>
          /\ Head(pending).h = "JSXElement"
          /\ componentPropUsages' =
                onJSXElement(componentPropUsages, Head(pending).node, Head(pending).id)
          /\ pending' = Tail(pending)
          /\ ast' = ast
    /\ calls' = Append(calls, Call("JSXElement", FALSE, FALSE))
    /\ UNCHANGED <<pc, reports, componentPropValues, FaultOthers>>

\* jsx-element-component-mismatch: JSXOpeningElement (inside try/catch).
FaultJSXOpeningElement ==
    /\ pc = "walk"
    /\ pending # <<>>
    /\ Head(pending).h = "JSXOpeningElement"
    /\ LET outcome == onJSXOpeningElementCaught(componentPropValues, Head(pending).node)
       IN /\ componentPropValues' = outcome.values
          /\ calls' = Append(calls, Call("JSXOpeningElement", outcome.threw, FALSE))
    /\ pending' = Tail(pending)
    /\ UNCHANGED <<ast, pc, reports, componentPropUsages, FaultOthers>>

\* jsx-element-component-mismatch: JSXExpressionContainer (inside try/catch).
FaultJSXExpressionContainer ==
    /\ pc = "walk"
    /\ pending # <<>>
    /\ Head(pending).h = "JSXExpressionContainer"
    /\ componentPropUsages' =
          onJSXExpressionContainer(componentPropUsages, Head(pending).node, Head(pending).id)
    /\ pending' = Tail(pending)
    /\ calls' = Append(calls, Call("JSXExpressionContainer", FALSE, FALSE))
    /\ UNCHANGED <<ast, pc, reports, componentPropValues, FaultOthers>>

\* no-nested-ternary: ConditionalExpression (no try/catch): what the body raises
\* reaches the host, which gives up the traversal.
FaultConditionalExpression ==
    /\ pc = "walk"
    /\ pending = <<>>
    /\ Len(ast) < MaxJsxNodes
    /\ \E node \in FaultConditionalNodes :
          LET outcome == hasNestedTernaryRaising(node)
          IN /\ ast' = Append(ast, node)
             /\ reports' = IF ~outcome.threw /\ outcome.value
                           THEN Append(reports, [node |-> <<Len(ast) + 1>>,
                                                 messageId |-> "noNestedTernary",
                                                 propName |-> Null])
                           ELSE reports
             /\ calls' = Append(calls, Call("ConditionalExpression", outcome.threw, outcome.threw))
             /\ pc' = IF outcome.threw THEN "aborted" ELSE pc
    /\ UNCHANGED <<pending, componentPropValues, componentPropUsages, FaultOthers>>

\* jsx-element-component-mismatch: Program:exit (inside try/catch).
FaultProgramExit ==
    /\ pc = "walk"
    /\ pending = <<>>
    /\ pc' = "done"
    /\ reports' = reports \o componentReports(componentPropUsages, componentPropValues)
    /\ calls' = Append(calls, Call("Program:exit", FALSE, FALSE))
    /\ UNCHANGED <<ast, pending, componentPropValues, componentPropUsages, FaultOthers>>

NextFault ==
    \/ FaultJSXElement
    \/ FaultJSXOpeningElement
    \/ FaultJSXExpressionContainer
    \/ FaultConditionalExpression
    \/ FaultProgramExit

SpecFault == InitFault /\ [][NextFault]_vars

(***************************************************************************)
(* Failure boundary claims                                                 *)
(***************************************************************************)

\* The opening elements the host hands to the JSXOpeningElement callback for the
\* first n nodes of the file, in visit order.
RECURSIVE OpeningElementVisits(_)
OpeningElementVisits(n) ==
    IF n = 0 THEN <<>>
    ELSE OpeningElementVisits(n - 1)
         \o (IF ast[n].type = "JSXElement"
             THEN LET below == childVisits(ast[n], <<n>>)
                  IN SelectSeq2(below, {k \in 1..Len(below) : below[k].h = "JSXOpeningElement"})
             ELSE <<>>)

\* componentPropValues as the visits leave it when every visit whose callback
\* faults is left out.
RECURSIVE ValuesWithoutFaultingVisits(_)
ValuesWithoutFaultingVisits(visits) ==
    IF visits = <<>> THEN <<>>
    ELSE LET before == ValuesWithoutFaultingVisits(SubSeq(visits, 1, Len(visits) - 1))
             outcome == onJSXOpeningElementCaught(before, visits[Len(visits)].node)
         IN IF outcome.threw THEN before ELSE outcome.values

MismatchReports ==
    SelectSeq2(reports, {k \in 1..Len(reports) : reports[k].messageId # "noNestedTernary"})

CallbackFaulted ==
    /\ Len(calls') = Len(calls) + 1
    /\ calls'[Len(calls')].threw
    /\ ~calls'[Len(calls')].propagated

\* C19: a callback whose body faults leaves the collections of the session and
\* the diagnostics emitted so far as they were, and the diagnostics of the file
\* are those of the file without the faulting node.
C19_FaultIsNoOp ==
    /\ [][CallbackFaulted =>
            /\ componentPropValues' = componentPropValues
            /\ componentPropUsages' = componentPropUsages
            /\ reports' = reports]_vars
    /\ [](pc = "done" =>
            MismatchReports =
                componentReports(componentPropUsages,
                                 ValuesWithoutFaultingVisits(OpeningElementVisits(Len(ast)))))

\* C20: no callback of any rule lets a fault of its body reach the host.
C20_NoFaultReachesHost ==
    \A i \in 1..Len(calls) : ~calls[i].propagated

(***************************************************************************)
(* Sessions: the module-level caches of utils/type-helpers outlive the     *)
(* traversal session that filled them                                      *)
(***************************************************************************)

\* The nodes a run of sessions queries.
SessionNodes ==
    {InferenceNode("Identifier", NullNode, a, r) :
        a \in {NoAnnotation,
               Annotation("TSBooleanKeyword", TypeName(Null, Null)),
               Annotation("TSTypeReference", TypeName(Null, "ReactNode"))},
        r \in {[outcome |-> "unmapped", type |-> T_Faulty],
               [outcome |-> "resolved", type |-> T_boolean],
               [outcome |-> "resolved", type |-> T_string],
               [outcome |-> "resolved", type |-> T_ReactNode]}}

\* The type services the sessions of a run meet.
SessionServices == {"absent", "checkerThrows", "present"}

\* The process starts with empty caches; the first session gets its context.
InitSessions ==
    /\ \E node \in SessionNodes : ast = <<node>>
    /\ pc = "walk"
    /\ reports = <<>>
    /\ parserServices \in SessionServices
    /\ options = Unused
    /\ explicitAnnotationCache = <<>>
    /\ typeCheckCache = <<>>
    /\ reactNodeTypeCache = <<>>
    /\ reactNodeAnnotationCache = <<>>
    /\ calls = <<>>
    /\ OcpfIdle /\ JecmIdle /\ SvgIdle
    /\ MemoIdle
    /\ HostIdle /\ FormIdle /\ NamingIdle /\ SingleSvgIdle

\* A rule of the current session calls an inference function on the node; the
\* call is logged with the type service of its session.
SessionCall(function, outcome) ==
    /\ Len(calls) < MaxCalls
    /\ calls' = Append(calls, [function |-> function, services |-> parserServices,
                               threw |-> outcome.threw, value |-> outcome.value])
    /\ explicitAnnotationCache' = outcome.caches.explicitAnnotationCache
    /\ typeCheckCache' = outcome.caches.typeCheckCache
    /\ reactNodeTypeCache' = outcome.caches.reactNodeTypeCache
    /\ reactNodeAnnotationCache' = outcome.caches.reactNodeAnnotationCache
    /\ UNCHANGED <<ast, pc, reports, options, parserServices, InferOthers>>

SessionIsBooleanType ==
    SessionCall("isBooleanType", isBooleanTypeGuarded(ast[1], 1, parserServices, currentCaches))

SessionIsReactNodeType ==
    SessionCall("isReactNodeType", isReactNodeType(ast[1], 1, parserServices, currentCaches))

SessionHasExplicitBooleanAnnotation ==
    SessionCall("hasExplicitBooleanAnnotation",
                hasExplicitBooleanAnnotationGuarded(ast[1], 1, currentCaches))

SessionHasExplicitReactNodeAnnotation ==
    SessionCall("hasExplicitReactNodeAnnotation",
                hasExplicitReactNodeAnnotation(ast[1], 1, currentCaches))

\* The session ends and another one (another rule, another run of the host on the
\* same tree) starts with a context of its own; the caches are module-level
\* constants and stay.
SessionStarts ==
    /\ \E services \in SessionServices \ {parserServices} : parserServices' = services
    /\ UNCHANGED <<ast, pc, reports, options, explicitAnnotationCache, typeCheckCache,
                   reactNodeTypeCache, reactNodeAnnotationCache, calls, InferOthers>>

NextSessions ==
    \/ SessionIsBooleanType
    \/ SessionIsReactNodeType
    \/ SessionHasExplicitBooleanAnnotation
    \/ SessionHasExplicitReactNodeAnnotation
    \/ SessionStarts

SpecSessions == InitSessions /\ [][NextSessions]_vars

\* ---- session claims ----

\* What a session that starts from nothing answers for the node under a service.
ResolvesUnder(services) == services = "present" /\ ast[1].resolved.outcome = "resolved"

IsBooleanInSession(services) ==
    IF ResolvesUnder(services)
    THEN (ast[1].resolved.type.flags \div 16) % 2 = 1
    ELSE IsExplicitBoolean(ast[1])

IsReactNodeInSession(services) ==
    IF ResolvesUnder(services)
    THEN ast[1].resolved.type = T_ReactNode
    ELSE IsExplicitReactNode(ast[1])

\* C21: what a session is told about a node depends on the node and on the type
\* service of that session only, not on what earlier sessions asked.
C21_SessionsAreIsolated ==
    \A i \in 1..Len(calls) :
        /\ calls[i].function = "isBooleanType" =>
              calls[i].value = IsBooleanInSession(calls[i].services)
        /\ calls[i].function = "isReactNodeType" =>
              calls[i].value = IsReactNodeInSession(calls[i].services)

\* The cache each inference function keeps.
CacheOf(function, caches) ==
    CASE function = "isBooleanType" -> caches[1]
      [] function = "hasExplicitBooleanAnnotation" -> caches[2]
      [] function = "isReactNodeType" -> caches[3]
      [] function = "hasExplicitReactNodeAnnotation" -> caches[4]

InferenceFunctions ==
    {"isBooleanType", "hasExplicitBooleanAnnotation", "isReactNodeType",
     "hasExplicitReactNodeAnnotation"}

AllCaches ==
    <<typeCheckCache, explicitAnnotationCache, reactNodeTypeCache, reactNodeAnnotationCache>>

reportsWithFixlessAtFault(emitted, k) ==
    IF k = 0 THEN emitted
    ELSE SubSeq(emitted, 1, k - 1) \o <<[emitted[k] EXCEPT !.fix = NullNode]>>

\* The reports that a callback gets through when the fix of its k-th report
\* faults (k = 0: none does): context.report throws, the catch of the callback
\* logs the error and the callback is over.
reportsUntilFault(emitted, k) ==
    IF k = 0 THEN emitted ELSE SubSeq(emitted, 1, k - 1)

\* The fix computations the host asked for: the k-th faulted.
fixCalls(emitted, k) ==
    [i \in 1..(IF k = 0 THEN Len(emitted) ELSE k) |->
        [function |-> "fix", threw |-> (i = k), propagated |-> FALSE]]

InitFix ==
    /\ pc = "walk"
    /\ reports = <<>>
    /\ calls = <<>>
    /\ reactNodeTypeCache = Unused
    /\ reactNodeAnnotationCache = Unused
    /\ OcpfIdle /\ JecmIdle /\ BoolIdle /\ FormIdle /\ NamingIdle /\ SingleSvgIdle
    /\ \/ /\ rule = "svg-currentcolor"
          /\ \E n \in 1..MaxElements :
               \E shape \in Shapes(n), attributes \in AttributeAssignments(n, MaxAttrs) :
                  /\ PreOrder(Tree(n, shape, attributes))
                  /\ ast = <<Tree(n, shape, attributes)>>
          /\ multiColorCache = <<>>
          /\ visited = 0
          /\ MemoIdle
       \/ /\ rule = "memoized-export"
          /\ \E program \in Programs : ast = <<program>>
          /\ exportNode = 0
          /\ svgNode = 0
          /\ SvgIdle

FixOthers == <<ocpfState, jecmState, boolState, reactNodeTypeCache, reactNodeAnnotationCache, rule, formState, namingState, singleSvgState>>

\* svg-currentcolor: JSXElement.
FixSvgJSXElement ==
    /\ rule = "svg-currentcolor"
    /\ pc = "walk"
    /\ visited < Len(tree)
    /\ LET i == visited + 1
           node == tree[i]
           key == <<run, i>>
           cached == MapHas(multiColorCache, key)
           hasMultipleColors ==
               IF cached THEN MapGet(multiColorCache, key)
               ELSE checkForMultipleColors(tree, i, {}).returned
           emitted ==
               IF validateJSXElement(node) /\ node.tag = "svg" /\ ~hasMultipleColors
               THEN issueReports(tree, findColorAttributeIssues(tree, i))
               ELSE <<>>
       IN /\ visited' = i
          /\ multiColorCache' =
                IF validateJSXElement(node) /\ node.tag = "svg" /\ ~cached
                THEN MapSet(multiColorCache, key, hasMultipleColors)
                ELSE multiColorCache
          /\ \E k \in 0..Len(emitted) :
                /\ reports' = reports \o reportsUntilFault(emitted, k)
                /\ calls' = calls \o fixCalls(emitted, k)
    /\ UNCHANGED <<ast, pc, memoState, FixOthers>>

\* memoized-export: JSXElement.
FixMemoJSXElement ==
    /\ rule = "memoized-export"
    /\ pc = "walk"
    /\ Len(ast) <= MaxMemoNodes
    /\ \E node \in MemoJsxNodes :
          LET file == Append(ast, node)
              after == onSvg(file, Len(file), exportNode, svgNode)
          IN /\ ast' = file
             /\ svgNode' = after.svgNode
             /\ exportNode' = after.exportNode
             /\ \E k \in 0..Len(after.reports) :
                   /\ reports' = reports \o reportsUntilFault(after.reports, k)
                   /\ calls' = calls \o fixCalls(after.reports, k)
    /\ UNCHANGED <<pc, svgState, FixOthers>>

\* memoized-export: ExportDefaultDeclaration.
FixMemoExportDefaultDeclaration ==
    /\ rule = "memoized-export"
    /\ pc = "walk"
    /\ Len(ast) <= MaxMemoNodes
    /\ \A i \in 1..Len(ast) : ast[i].type # "ExportDefaultDeclaration"
    /\ \E declaration \in Declarations :
          ast' = Append(ast, ExportDefaultDeclaration(declaration, ast[1].layout.exportRange))
    /\ exportNode' = Len(ast) + 1
    /\ UNCHANGED <<pc, reports, calls, svgNode, svgState, FixOthers>>

\* The end of the traversal: Program:exit of memoized-export (svg-currentcolor
\* has no such callback).
FixTraversalEnds ==
    /\ pc = "walk"
    /\ pc' = "done"
    /\ \/ /\ rule = "svg-currentcolor"
          /\ visited = Len(tree)
          /\ UNCHANGED <<reports, calls>>
       \/ /\ rule = "memoized-export"
          /\ LET emitted == IF exportNode # 0 THEN checkExport(ast, exportNode, svgNode)
                            ELSE <<>>
             IN \E k \in 0..Len(emitted) :
                   /\ reports' = reports \o reportsUntilFault(emitted, k)
                   /\ calls' = calls \o fixCalls(emitted, k)
    /\ UNCHANGED <<ast, svgState, memoState, FixOthers>>

NextFix ==
    \/ FixSvgJSXElement
    \/ FixMemoJSXElement
    \/ FixMemoExportDefaultDeclaration
    \/ FixTraversalEnds

SpecFix == InitFix /\ [][NextFix]_vars

\* ---- fix claims ----

NewCalls == SubSeq(calls', Len(calls) + 1, Len(calls'))

NewReports == SubSeq(reports', Len(reports) + 1, Len(reports'))

FaultedAmong(log) == {i \in 1..Len(log) : log[i].threw}

\* C23 as stated: a fix computation that faults still leaves its diagnostic,
\* without a fix, and nothing is thrown: every fix the host asked for in a
\* callback has its diagnostic among those the callback emitted.
C23_FaultyFixKeepsDiagnostic ==
    [][/\ Len(NewReports) = Len(NewCalls)
       /\ \A i \in 1..Len(NewCalls) : ~NewCalls[i].propagated]_vars

\* C23 amended: a fix computation that faults throws nothing to the host, but
\* its diagnostic is lost: the callback emits exactly the diagnostics whose fix
\* was computed before the fault, and stops there.
C23_FaultyFixLosesDiagnostic ==
    [][/\ Len(NewReports) = Len(NewCalls) - Cardinality(FaultedAmong(NewCalls))
       /\ FaultedAmong(NewCalls) \subseteq {Len(NewCalls)}
       /\ \A i \in 1..Len(NewCalls) : ~NewCalls[i].propagated]_vars

\* The second fix of an svg element faulted after the first diagnostic was out.
C23_Witness ==
    /\ rule = "svg-currentcolor"
    /\ Len(reports) = 1
    /\ Len(calls) = 2
    /\ ~calls[1].threw
    /\ calls[2].threw

(***************************************************************************)
(* form-config-extraction                                                  *)
(*                                                                         *)
(* The session owns the Map imports; ImportDeclaration fills it and        *)
(* CallExpression reads it, both in the order the host visits the          *)
(* statements of the file.  Names and import sources are sequences of      *)
(* characters, so that the two patterns of the rule are computed.  The     *)
(* data of a diagnostic (the suggested name or source) is left out.        *)
(***************************************************************************)

\* Most statements of a file.
MaxFormStmts == 2

UpperCaseLetters == {"A", "B", "C", "D", "E", "F", "G", "H", "I", "J", "K", "L", "M", "N", "O", "P", "Q", "R", "S", "T", "U", "V", "W", "X", "Y", "Z"}

DigitCharacters == {"0", "1", "2", "3", "4", "5", "6", "7", "8", "9"}

\* /^[A-Z][A-Z0-9_]*$/.test(name)
UPPER_SNAKE_CASE_PATTERN(name) ==
    /\ Len(name) >= 1
    /\ name[1] \in UpperCaseLetters
    /\ \A i \in 2..Len(name) :
          name[i] \in UpperCaseLetters \cup DigitCharacters \cup {"_"}

\* /-constants(?:\.(ts|tsx))?$/.test(sourcePath)
CONSTANTS_FILE_PATTERN(sourcePath) ==
    \E k \in 1..Len(sourcePath) :
       /\ k + 9 <= Len(sourcePath)
       /\ SubSeq(sourcePath, k, k + 9) = <<"-", "c", "o", "n", "s", "t", "a", "n", "t", "s">>
       /\ SubSeq(sourcePath, k + 10, Len(sourcePath)) \in {<<>>, <<".", "t", "s">>, <<".", "t", "s", "x">>}

\* --- the nodes of the file ---

FORM_CONFIG == <<"F", "O", "R", "M", "_", "C", "O", "N", "F", "I", "G", "_", "2">>
formConfig == <<"f", "o", "r", "m", "C", "o", "n", "f", "i", "g">>
Form_Config == <<"F", "o", "r", "m", "_", "C", "o", "n", "f", "i", "g">>

\* Names an import specifier imports, and names it binds in the file.
ImportedNames == {FORM_CONFIG, formConfig, Form_Config}
LocalNames == {FORM_CONFIG, formConfig}

ImportSources ==
    {<<".", "/", "f", "o", "r", "m", "-", "c", "o", "n", "s", "t", "a", "n", "t", "s">>,
     <<".", "/", "f", "o", "r", "m", "-", "c", "o", "n", "s", "t", "a", "n", "t", "s", ".", "t", "s">>,
     <<".", "/", "f", "o", "r", "m", "-", "c", "o", "n", "s", "t", "a", "n", "t", "s", ".", "t", "s", "x">>,
     <<".", "/", "f", "o", "r", "m", ".", "t", "s">>,
     <<".", "/", "f", "o", "r", "m", "-", "c", "o", "n", "s", "t", "a", "n", "t", "s", ".", "j", "s">>}

NameNode(name) == [type |-> "Identifier", name |-> name]

ImportSpecifiers ==
    {[type |-> "ImportSpecifier", imported |-> NameNode(i), local |-> NameNode(l)] :
        i \in ImportedNames, l \in LocalNames}
    \cup {[type |-> "ImportDefaultSpecifier", local |-> NameNode(l)] : l \in LocalNames}
    \cup {[type |-> "ImportNamespaceSpecifier", local |-> NameNode(FORM_CONFIG)]}

ImportDeclarations ==
    {[type |-> "ImportDeclaration",
      source |-> [type |-> "Literal", value |-> s],
      specifiers |-> <<specifier>>] : s \in ImportSources, specifier \in ImportSpecifiers}

KeyedProperty(key) == [type |-> "Property", key |-> key]

ObjectExpressions ==
    {[type |-> "ObjectExpression", properties |-> properties] :
        properties \in
           {<<>>,
            <<KeyedProperty([type |-> "Identifier", name |-> "defaultValues"])>>,
            <<KeyedProperty([type |-> "Identifier", name |-> "label"])>>,
            <<KeyedProperty([type |-> "Identifier", name |-> "label"]),
              KeyedProperty([type |-> "Identifier", name |-> "initialValues"])>>,
            <<KeyedProperty([type |-> "Literal", value |-> "defaultValues"])>>,
            <<[type |-> "SpreadElement"]>>}}

MemberOf(object) == [type |-> "MemberExpression", object |-> object]

FirstArguments ==
    ObjectExpressions
    \cup {NameNode(l) : l \in LocalNames}
    \cup {MemberOf(NameNode(l)) : l \in LocalNames}
    \cup {MemberOf(MemberOf(NameNode(formConfig))),
          MemberOf([type |-> "CallExpression"])}

Callees == {"useForm", "useFormik", "useQuery"}

CallExpressions ==
    {[type |-> "CallExpression",
      callee |-> [type |-> "Identifier", name |-> callee],
      arguments |-> arguments] :
        callee \in Callees, arguments \in {<<>>} \cup {<<a>> : a \in FirstArguments}}

FormStatements == ImportDeclarations \cup CallExpressions

\* --- helpers of the rule ---

isFormHook(node) ==
    /\ node.callee.type = "Identifier"
    /\ node.callee.name \in {"useForm", "useFormik"}

isFormConfigProperty(name) == name \in {"defaultValues", "initialValues"}

RECURSIVE setImports(_, _, _, _)
setImports(map, specifiers, sourcePath, k) ==
    IF k > Len(specifiers) THEN map
    ELSE LET specifier == specifiers[k]
             next ==
                 IF specifier.type = "ImportSpecifier"
                 THEN MapSet(map, specifier.local.name,
                             [variableName |-> specifier.imported.name,
                              sourcePath |-> sourcePath])
                 ELSE IF specifier.type = "ImportDefaultSpecifier"
                 THEN MapSet(map, specifier.local.name,
                             [variableName |-> specifier.local.name,
                              sourcePath |-> sourcePath])
                 ELSE map
         IN setImports(next, specifiers, sourcePath, k + 1)

everyIsFormConfig(properties) ==
    \A i \in 1..Len(properties) :
       /\ properties[i].type = "Property"
       /\ properties[i].key.type = "Identifier"
       /\ isFormConfigProperty(properties[i].key.name)

isFormConfigPresent(properties) ==
    \E i \in 1..Len(properties) :
       /\ properties[i].type = "Property"
       /\ properties[i].key.type = "Identifier"
       /\ isFormConfigProperty(properties[i].key.name)

\* A slip that takes a name the map does not hold for a badly named import.
importDiagnosticsOfUnbound(map, name, anchor) ==
    IF ~MapHas(map, name) THEN <<[node |-> anchor, messageId |-> "invalidNaming"]>>
    ELSE LET importInfo == MapGet(map, name)
         IN (IF ~UPPER_SNAKE_CASE_PATTERN(importInfo.variableName)
             THEN <<[node |-> anchor, messageId |-> "invalidNaming"]>> ELSE <<>>)
            \o (IF ~CONSTANTS_FILE_PATTERN(importInfo.sourcePath)
                THEN <<[node |-> anchor, messageId |-> "invalidImportSource"]>> ELSE <<>>)

\* The two checks on the import a name is bound by, anchored at the argument.
importDiagnostics(map, name, anchor) ==
    IF ~MapHas(map, name) THEN <<>>
    ELSE LET importInfo == MapGet(map, name)
         IN (IF ~UPPER_SNAKE_CASE_PATTERN(importInfo.variableName)
             THEN <<[node |-> anchor, messageId |-> "invalidNaming"]>> ELSE <<>>)
            \o (IF ~CONSTANTS_FILE_PATTERN(importInfo.sourcePath)
                THEN <<[node |-> anchor, messageId |-> "invalidImportSource"]>> ELSE <<>>)

\* The base of a member path: while (current.type === MemberExpression) current = current.object
RECURSIVE baseOfMember(_)
baseOfMember(node) ==
    IF node.type = "MemberExpression" THEN baseOfMember(node.object) ELSE node

\* The diagnostics of the CallExpression callback on the k-th statement.
onCallExpression(map, node, k) ==
    IF ~isFormHook(node) THEN <<>>
    ELSE IF Len(node.arguments) = 0 THEN <<>>
    ELSE LET firstArg == node.arguments[1]
             anchor == <<k, "arguments", 1>>
         IN IF firstArg.type = "ObjectExpression"
            THEN IF isFormConfigPresent(firstArg.properties)
                 THEN <<[node |-> anchor, messageId |-> "inlineConfig"]>>
                 ELSE <<>>
            ELSE IF firstArg.type = "Identifier"
            THEN importDiagnostics(map, firstArg.name, anchor)
            ELSE IF firstArg.type = "MemberExpression"
            THEN IF baseOfMember(firstArg).type = "Identifier"
                 THEN importDiagnostics(map, baseOfMember(firstArg).name, anchor)
                 ELSE <<>>
            ELSE <<>>

\* --- the rule ---

\* A module binds a name once: no two import specifiers share their local name.
BindsOnce(statements) ==
    \A i, j \in 1..Len(statements) :
        (/\ i # j
         /\ statements[i].type = "ImportDeclaration"
         /\ statements[j].type = "ImportDeclaration")
        => statements[i].specifiers[1].local.name # statements[j].specifiers[1].local.name

InitForm ==
    /\ \E n \in 1..MaxFormStmts : ast \in [1..n -> FormStatements]
    /\ BindsOnce(ast)
    /\ pc = "walk"
    /\ reports = <<>>
    /\ visited = 0
    /\ imports = <<>>
    /\ multiColorCache = Unused
    /\ OcpfIdle /\ JecmIdle /\ BoolIdle /\ InferIdle
    /\ MemoIdle
    /\ HostIdle /\ NamingIdle /\ SingleSvgIdle

FormOthers ==
    <<ocpfState, jecmState, boolState, multiColorCache, inferState, memoState, hostState,
      namingState, singleSvgState>>

FormImportDeclaration ==
    /\ pc = "walk"
    /\ visited < Len(ast)
    /\ ast[visited + 1].type = "ImportDeclaration"
    /\ LET node == ast[visited + 1]
       IN imports' = IF node.source.type # "Literal" THEN imports
                     ELSE setImports(imports, node.specifiers, node.source.value, 1)
    /\ visited' = visited + 1
    /\ UNCHANGED <<ast, pc, reports, FormOthers>>

FormCallExpression ==
    /\ pc = "walk"
    /\ visited < Len(ast)
    /\ ast[visited + 1].type = "CallExpression"
    /\ reports' = reports \o onCallExpression(imports, ast[visited + 1], visited + 1)
    /\ visited' = visited + 1
    /\ UNCHANGED <<ast, pc, imports, FormOthers>>

FormTraversalEnds ==
    /\ pc = "walk"
    /\ visited = Len(ast)
    /\ pc' = "done"
    /\ UNCHANGED <<ast, reports, visited, imports, FormOthers>>

NextForm == FormImportDeclaration \/ FormCallExpression \/ FormTraversalEnds

SpecForm == InitForm /\ [][NextForm]_vars

\* --- form-config-extraction: the claims, stated on the file ---

FormCalls == {k \in 1..Len(ast) : ast[k].type = "CallExpression"}

CalleeIsFormHook(k) == ast[k].callee.name \in {"useForm", "useFormik"}

DiagnosticsOfCall(k) == {r \in 1..Len(reports) : reports[r].node[1] = k}

MessagesOfCall(k) == {reports[r].messageId : r \in DiagnosticsOfCall(k)}

HasConfigurationProperty(object) ==
    \E i \in 1..Len(object.properties) :
       /\ object.properties[i].type = "Property"
       /\ object.properties[i].key.type = "Identifier"
       /\ object.properties[i].key.name \in {"defaultValues", "initialValues"}

InlineConfigCall(k) ==
    /\ CalleeIsFormHook(k)
    /\ Len(ast[k].arguments) > 0
    /\ ast[k].arguments[1].type = "ObjectExpression"
    /\ HasConfigurationProperty(ast[k].arguments[1])

\* C24: once the walk is over, a form-hook call (useForm, useFormik) whose first
\* argument is an object literal with at least one form-configuration property
\* (a property keyed by the identifier of one) has exactly one diagnostic, an
\* inlineConfig anchored at that object; a form-hook call with no arguments and a
\* call of another hook have none.
C24_InlineConfigReportedOnce ==
    pc = "done" =>
        \A k \in FormCalls :
            /\ InlineConfigCall(k) =>
                  /\ Cardinality(DiagnosticsOfCall(k)) = 1
                  /\ \A r \in DiagnosticsOfCall(k) :
                        /\ reports[r].messageId = "inlineConfig"
                        /\ reports[r].node = <<k, "arguments", 1>>
            /\ (CalleeIsFormHook(k) /\ Len(ast[k].arguments) = 0) =>
                  DiagnosticsOfCall(k) = {}
            /\ ~CalleeIsFormHook(k) => DiagnosticsOfCall(k) = {}

\* A file with a form-hook call on an object of two properties, the second one a
\* form-configuration property, and another statement before it.
C24_Witness ==
    /\ pc = "done"
    /\ Len(ast) = 2
    /\ InlineConfigCall(2)
    /\ Len(ast[2].arguments[1].properties) = 2
    /\ Len(reports) = 1

\* The name a form-hook call's first argument is rooted at (the identifier itself
\* or the identifier a member path starts from), <<>> where there is none.
RECURSIVE RootName(_)
RootName(node) ==
    IF node.type = "Identifier" THEN node.name
    ELSE IF node.type = "MemberExpression" THEN RootName(node.object)
    ELSE <<>>

\* The imports of the file that bind a name by a named or default specifier, as
\* [imported, source] with the imported name of a named specifier and the bound
\* name of a default one.
BindingsOf(name) ==
    {[imported |-> IF ast[j].specifiers[s].type = "ImportSpecifier"
                   THEN ast[j].specifiers[s].imported.name
                   ELSE ast[j].specifiers[s].local.name,
      source |-> ast[j].source.value] :
        <<j, s>> \in {<<j, s>> \in (1..Len(ast)) \X (1..1) :
                          /\ ast[j].type = "ImportDeclaration"
                          /\ s <= Len(ast[j].specifiers)
                          /\ ast[j].specifiers[s].type \in
                                {"ImportSpecifier", "ImportDefaultSpecifier"}
                          /\ ast[j].specifiers[s].local.name = name}}

EndsIn(s, suffix) ==
    /\ Len(s) >= Len(suffix)
    /\ SubSeq(s, Len(s) - Len(suffix) + 1, Len(s)) = suffix

IsUpperSnakeCase(name) ==
    /\ name # <<>>
    /\ name[1] \in UpperCaseLetters
    /\ \A i \in 2..Len(name) : name[i] \in UpperCaseLetters \cup DigitCharacters \cup {"_"}

IsConstantsSource(source) ==
    \/ EndsIn(source, <<"-", "c", "o", "n", "s", "t", "a", "n", "t", "s">>)
    \/ EndsIn(source, <<"-", "c", "o", "n", "s", "t", "a", "n", "t", "s", ".", "t", "s">>)
    \/ EndsIn(source, <<"-", "c", "o", "n", "s", "t", "a", "n", "t", "s", ".", "t", "s", "x">>)

ReferenceCall(k) ==
    /\ CalleeIsFormHook(k)
    /\ Len(ast[k].arguments) > 0
    /\ ast[k].arguments[1].type \in {"Identifier", "MemberExpression"}

\* C25: once the walk is over, for a form-hook call whose first argument is an
\* identifier, or a member path rooted at one, that a named or default import of
\* the file binds, invalidNaming is emitted iff the imported name is not
\* UPPER_SNAKE_CASE and invalidImportSource iff the source does not end in
\* -constants, -constants.ts or -constants.tsx, each at most once; a root that no
\* import binds has no diagnostic.
C25_ImportChecksAreIndependent ==
    pc = "done" =>
        \A k \in {c \in FormCalls : ReferenceCall(c)} :
            LET root == RootName(ast[k].arguments[1])
            IN /\ \A b \in BindingsOf(root) :
                    /\ ("invalidNaming" \in MessagesOfCall(k)) <=> ~IsUpperSnakeCase(b.imported)
                    /\ ("invalidImportSource" \in MessagesOfCall(k)) <=> ~IsConstantsSource(b.source)
                    /\ Cardinality(DiagnosticsOfCall(k)) = Cardinality(MessagesOfCall(k))
               /\ (root = <<>> \/ BindingsOf(root) = {}) => DiagnosticsOfCall(k) = {}

(***************************************************************************)
(* no-response-data-return                                                 *)
(*                                                                         *)
(* create() looks at the file name once and returns either no listener or  *)
(* the ReturnStatement listener; the host then visits the return           *)
(* statements of the file in order.  calls logs the callbacks the host     *)
(* invoked.                                                                *)
(***************************************************************************)

\* Most return statements of a file.
MaxReturns == 2

\* String.prototype.toLowerCase
toLowerCase(str) ==
    [i \in 1..Len(str) |->
        IF \E c \in 1..26 : UpperLetters[c] = str[i]
        THEN LowerLetters[CHOOSE c \in 1..26 : UpperLetters[c] = str[i]]
        ELSE str[i]]

\* --- the nodes of the file ---

FileNames ==
    {<<"s", "r", "c", "/", "s", "e", "r", "v", "i", "c", "e", "s", "/", "u", "s", "e", "r", "-", "s", "e", "r", "v", "i", "c", "e", ".", "t", "s">>,
     <<"s", "r", "c", "/", "c", "o", "m", "p", "o", "n", "e", "n", "t", "s", "/", "M", "y", "C", "o", "m", "p", "o", "n", "e", "n", "t", ".", "t", "s">>,
     <<"s", "e", "r", "v", "i", "c", "e", "s", "/", "u", "s", "e", "r", "S", "e", "r", "v", "i", "c", "e", ".", "t", "s">>,
     <<"s", "r", "c", "/", "a", "p", "i", "/", "u", "s", "e", "r", "S", "e", "r", "v", "i", "c", "e", ".", "t", "s">>}

RootNames ==
    {<<"r", "e", "s", "p", "o", "n", "s", "e">>, <<"r", "e", "s">>, <<"r", "e", "s", "u", "l", "t">>, <<"a", "p", "i", "R", "e", "s", "p", "o", "n", "s", "e">>, <<"R", "E", "S">>,
     <<"c", "o", "n", "f", "i", "g">>, <<"r">>, <<"a", "d", "d", "r", "e", "s", "s">>}

PropertyNames == {"data", "items"}

MemberExpressions ==
    LET roots == {NameNode(n) : n \in RootNames} \cup {[type |-> "CallExpression"]}
        Member(object, property) ==
            [type |-> "MemberExpression", object |-> object,
             property |-> [type |-> "Identifier", name |-> property]]
    IN {Member(root, p) : root \in roots, p \in PropertyNames}
       \cup {Member(Member(NameNode(n), p), q) :
                n \in {<<"r", "e", "s", "p", "o", "n", "s", "e">>, <<"c", "o", "n", "f", "i", "g">>}, p \in PropertyNames, q \in PropertyNames}
       \cup {[type |-> "MemberExpression", object |-> NameNode(<<"r", "e", "s", "p", "o", "n", "s", "e">>),
              property |-> [type |-> "Literal", value |-> "data"]]}

ReturnArguments ==
    {NullNode}
    \cup MemberExpressions
    \cup {[type |-> "ChainExpression", expression |-> m] :
             m \in {e \in MemberExpressions : e.object = NameNode(<<"r", "e", "s">>)}}
    \cup {[type |-> "ChainExpression", expression |-> [type |-> "CallExpression"]],
          [type |-> "ObjectExpression"], [type |-> "CallExpression"],
          NameNode(<<"r", "e", "s", "p", "o", "n", "s", "e">>)}

ReturnStatements == {[type |-> "ReturnStatement", argument |-> a] : a \in ReturnArguments}

\* --- helpers of the rule ---

matchesServicePath(filename) == includes(filename, <<"s", "r", "c", "/", "s", "e", "r", "v", "i", "c", "e", "s", "/">>)

nameIsResponseCaseSensitive(name) ==
    \/ includes(name, <<"r", "e", "s", "p", "o", "n", "s", "e">>)
    \/ includes(name, <<"r", "e", "s">>)
    \/ name = <<"r">>
    \/ includes(name, <<"r", "e", "s", "u", "l", "t">>)

nameIsResponse(name) ==
    \/ includes(toLowerCase(name), <<"r", "e", "s", "p", "o", "n", "s", "e">>)
    \/ includes(toLowerCase(name), <<"r", "e", "s">>)
    \/ toLowerCase(name) = <<"r">>
    \/ includes(toLowerCase(name), <<"r", "e", "s", "u", "l", "t">>)

isResponseDataAccess(node) ==
    IF node.property.type # "Identifier" \/ node.property.name # "data" THEN FALSE
    ELSE LET current == baseOfMember(node.object)
         IN IF current.type = "Identifier" THEN nameIsResponse(current.name) ELSE FALSE

isDirectResponseDataReturn(returnNode) ==
    IF returnNode.argument = NullNode THEN FALSE
    ELSE IF returnNode.argument.type = "MemberExpression"
    THEN isResponseDataAccess(returnNode.argument)
    ELSE IF returnNode.argument.type = "ChainExpression"
    THEN IF returnNode.argument.expression.type = "MemberExpression"
         THEN isResponseDataAccess(returnNode.argument.expression)
         ELSE FALSE
    ELSE FALSE

\* --- the rule ---

InitService ==
    /\ \E f \in FileNames, n \in 1..MaxReturns :
          \E body \in [1..n -> ReturnStatements] : ast = [filename |-> f, body |-> body]
    /\ pc = "create"
    /\ reports = <<>>
    /\ calls = <<>>
    /\ visited = 0
    /\ multiColorCache = Unused
    /\ reactNodeTypeCache = Unused
    /\ reactNodeAnnotationCache = Unused
    /\ OcpfIdle /\ JecmIdle /\ BoolIdle
    /\ MemoIdle
    /\ HostIdle /\ FormIdle /\ NamingIdle /\ SingleSvgIdle

ServiceOthers ==
    <<ocpfState, jecmState, boolState, multiColorCache, reactNodeTypeCache,
      reactNodeAnnotationCache, memoState, hostState, formState, namingState, singleSvgState>>

\* create(context): no listener for a file that is not a service file.
ServiceCreate ==
    /\ pc = "create"
    /\ pc' = IF ~matchesServicePath(ast.filename) THEN "unsubscribed" ELSE "walk"
    /\ UNCHANGED <<ast, reports, calls, visited, ServiceOthers>>

\* The ReturnStatement callback on the next return statement of the file.
ServiceReturnStatement ==
    /\ pc = "walk"
    /\ visited < Len(ast.body)
    /\ reports' = IF isDirectResponseDataReturn(ast.body[visited + 1])
                  THEN Append(reports, [node |-> visited + 1,
                                        messageId |-> "directResponseDataReturn"])
                  ELSE reports
    /\ calls' = Append(calls, [function |-> "ReturnStatement", node |-> visited + 1])
    /\ visited' = visited + 1
    /\ UNCHANGED <<ast, pc, ServiceOthers>>

\* The host passes a return statement the session has no listener for.
ServiceUnheardReturnStatement ==
    /\ pc = "unsubscribed"
    /\ visited < Len(ast.body)
    /\ visited' = visited + 1
    /\ UNCHANGED <<ast, pc, reports, calls, ServiceOthers>>

ServiceTraversalEnds ==
    /\ pc \in {"walk", "unsubscribed"}
    /\ visited = Len(ast.body)
    /\ pc' = "done"
    /\ UNCHANGED <<ast, reports, calls, visited, ServiceOthers>>

NextService ==
    \/ ServiceCreate
    \/ ServiceReturnStatement
    \/ ServiceUnheardReturnStatement
    \/ ServiceTraversalEnds

SpecService == InitService /\ [][NextService]_vars

\* --- no-response-data-return: the claims, stated on the file ---

InServicesDirectory == \E k \in 1..Len(ast.filename) :
    /\ k + 12 <= Len(ast.filename)
    /\ SubSeq(ast.filename, k, k + 12) = <<"s", "r", "c", "/", "s", "e", "r", "v", "i", "c", "e", "s", "/">>

\* The member access a return statement returns, a ?. chain unwrapped.
ReturnedMember(k) ==
    LET argument == ast.body[k].argument
    IN IF argument.type = "ChainExpression" THEN argument.expression ELSE argument

RECURSIVE RootOf(_)
RootOf(node) == IF node.type = "MemberExpression" THEN RootOf(node.object) ELSE node

EndsInData(node) ==
    /\ node.type = "MemberExpression"
    /\ node.property.type = "Identifier"
    /\ node.property.name = "data"

\* Named like response, res or result, whatever the case of its letters.
NamedLikeResponse(name) ==
    \E word \in {<<"r", "e", "s", "p", "o", "n", "s", "e">>, <<"r", "e", "s">>, <<"r", "e", "s", "u", "l", "t">>} :
        \E k \in 1..Len(name) :
            /\ k + Len(word) - 1 <= Len(name)
            /\ toLowerCase(SubSeq(name, k, k + Len(word) - 1)) = word

DiagnosticsOfReturn(k) == {r \in 1..Len(reports) : reports[r].node = k}

MaxInlineAttrs == 2

\* --- the nodes of the file ---

AttributeNameNodes ==
    {[type |-> "JSXIdentifier", name |-> "style"],
     [type |-> "JSXIdentifier", name |-> "onClick"],
     [type |-> "JSXNamespacedName", name |-> "href"]}

ExpressionTypes ==
    {"ObjectExpression", "ArrowFunctionExpression", "FunctionExpression", "Literal",
     "Identifier", "CallExpression", "JSXEmptyExpression"}

AttributeValueNodes ==
    {NullNode, [type |-> "Literal"]}
    \cup {[type |-> "JSXExpressionContainer", expression |-> [type |-> t]] :
             t \in ExpressionTypes}

InlineAttributes ==
    {[type |-> "JSXAttribute", name |-> n, value |-> v] :
        n \in AttributeNameNodes, v \in AttributeValueNodes}

\* --- utils/jsx-helpers ---

isInlineObject(attribute) ==
    IF ~validateJSXAttributeStructure(attribute) THEN FALSE
    ELSE IF attribute.value = NullNode THEN FALSE
    ELSE IF attribute.value.type = "JSXExpressionContainer"
    THEN IF attribute.value.expression.type = "JSXEmptyExpression" THEN FALSE
         ELSE attribute.value.expression.type = "ObjectExpression"
    ELSE FALSE

isInlineArrowFunction(attribute) ==
    /\ validateJSXAttributeStructure(attribute)
    /\ attribute.value # NullNode
    /\ attribute.value.type = "JSXExpressionContainer"
    /\ attribute.value.expression.type = "ArrowFunctionExpression"

isInlineFunction(attribute) ==
    IF ~validateJSXAttributeStructure(attribute) THEN FALSE
    ELSE IF attribute.value = NullNode THEN FALSE
    ELSE IF attribute.value.type = "JSXExpressionContainer"
    THEN IF attribute.value.expression.type = "JSXEmptyExpression" THEN FALSE
         ELSE attribute.value.expression.type \in
                 {"ArrowFunctionExpression", "FunctionExpression"}
    ELSE FALSE

\* The node of the prop's value as a path below the attribute, Null for null.
getPropValue(attribute) ==
    IF ~validateJSXAttributeStructure(attribute) THEN Null
    ELSE IF attribute.value = NullNode THEN Null
    ELSE IF attribute.value.type = "JSXExpressionContainer"
    THEN IF attribute.value.expression.type # "JSXEmptyExpression"
         THEN "value.expression" ELSE Null
    ELSE IF attribute.value.type = "Literal" THEN "value"
    ELSE Null

\* --- the rules ---

\* The diagnostics of a JSXAttribute callback whose test of the attribute held.
reportInline(attribute, k, messageId) ==
    LET propName == IF getAttributeName(attribute) = Null THEN "unknown"
                    ELSE getAttributeName(attribute)
        propValue == getPropValue(attribute)
    IN IF propValue # Null
       THEN <<[node |-> <<k, propValue>>, messageId |-> messageId,
               data |-> [propName |-> propName]]>>
       ELSE <<>>

InitInline ==
    /\ \E n \in 1..MaxInlineAttrs : ast \in [1..n -> InlineAttributes]
    /\ rule \in {"no-inline-objects", "no-inline-functions"}
    /\ pc = "walk"
    /\ reports = <<>>
    /\ visited = 0
    /\ multiColorCache = Unused
    /\ OcpfIdle /\ JecmIdle /\ BoolIdle /\ InferIdle
    /\ MemoIdle /\ FormIdle /\ NamingIdle /\ SingleSvgIdle

InlineOthers ==
    <<ocpfState, jecmState, boolState, multiColorCache, inferState, memoState, hostState,
      formState, namingState, singleSvgState>>

\* no-inline-objects: JSXAttribute.
InlineObjectsJSXAttribute ==
    /\ pc = "walk"
    /\ rule = "no-inline-objects"
    /\ visited < Len(ast)
    /\ LET node == ast[visited + 1]
       IN reports' = IF ~validateJSXAttributeStructure(node) THEN reports
                     ELSE IF isInlineObject(node)
                     THEN reports \o reportInline(node, visited + 1, "noInlineObject")
                     ELSE reports
    /\ visited' = visited + 1
    /\ UNCHANGED <<ast, pc, InlineOthers>>

\* no-inline-functions: JSXAttribute.
InlineFunctionsJSXAttribute ==
    /\ pc = "walk"
    /\ rule = "no-inline-functions"
    /\ visited < Len(ast)
    /\ LET node == ast[visited + 1]
       IN reports' = IF ~validateJSXAttributeStructure(node) THEN reports
                     ELSE IF isInlineFunction(node)
                     THEN reports \o reportInline(node, visited + 1, "noInlineFunction")
                     ELSE reports
    /\ visited' = visited + 1
    /\ UNCHANGED <<ast, pc, InlineOthers>>

InlineTraversalEnds ==
    /\ pc = "walk"
    /\ visited = Len(ast)
    /\ pc' = "done"
    /\ UNCHANGED <<ast, reports, visited, InlineOthers>>

NextInline ==
    \/ InlineObjectsJSXAttribute
    \/ InlineFunctionsJSXAttribute
    \/ InlineTraversalEnds

SpecInline == InitInline /\ [][NextInline]_vars

\* --- no-inline-objects / no-inline-functions: the claims, stated on the file ---

\* The expression types the session's rule is about, and its message.
InlineTypes ==
    IF rule = "no-inline-objects" THEN {"ObjectExpression"}
    ELSE {"ArrowFunctionExpression", "FunctionExpression"}

InlineMessage ==
    IF rule = "no-inline-objects" THEN "noInlineObject" ELSE "noInlineFunction"

HoldsInline(k) ==
    /\ ast[k].value.type = "JSXExpressionContainer"
    /\ ast[k].value.expression.type \in InlineTypes

\* A string literal, a number or boolean expression, an identifier reference or
\* no value at all.
HoldsPlainValue(k) ==
    \/ ast[k].value.type \in {"null", "Literal"}
    \/ /\ ast[k].value.type = "JSXExpressionContainer"
       /\ ast[k].value.expression.type \in {"Literal", "Identifier"}

DiagnosticsOfAttribute(k) == {r \in 1..Len(reports) : reports[r].node[1] = k}

ReportedOnceAtExpression(k) ==
    /\ Cardinality(DiagnosticsOfAttribute(k)) = 1
    /\ \A r \in DiagnosticsOfAttribute(k) :
          /\ reports[r].messageId = InlineMessage
          /\ reports[r].node = <<k, "value.expression">>
          /\ reports[r].data.propName = ast[k].name.name

\* C27 (as stated): once the walk is over, every JSX attribute whose value is an
\* expression container holding an object literal (for no-inline-functions: an
\* arrow or function expression) has exactly one diagnostic of the rule, anchored
\* at that expression, with propName the attribute's name; an attribute with a
\* string literal, a number or boolean expression, an identifier reference or no
\* value has none.
C27_InlineValueReportedOnce ==
    pc = "done" =>
        \A k \in 1..Len(ast) :
            /\ HoldsInline(k) => ReportedOnceAtExpression(k)
            /\ HoldsPlainValue(k) => DiagnosticsOfAttribute(k) = {}

\* C27 (amended): the same for every attribute whose name is a plain JSX
\* identifier; an attribute with a namespaced name (xlink:href) has no diagnostic
\* whatever its value.
C27_PlainNamedInlineValueReportedOnce ==
    pc = "done" =>
        \A k \in 1..Len(ast) :
            /\ (HoldsInline(k) /\ ast[k].name.type = "JSXIdentifier")
                  => ReportedOnceAtExpression(k)
            /\ HoldsPlainValue(k) => DiagnosticsOfAttribute(k) = {}
            /\ ast[k].name.type = "JSXNamespacedName" => DiagnosticsOfAttribute(k) = {}

\* A no-inline-functions session on a file whose first attribute holds a function
\* expression under a plain name and whose second holds an arrow function under a
\* namespaced name.
C27_Witness ==
    /\ pc = "done"
    /\ rule = "no-inline-functions"
    /\ Len(ast) = 2
    /\ HoldsInline(1)
    /\ ast[1].value.expression.type = "FunctionExpression"
    /\ ast[1].name.type = "JSXIdentifier"
    /\ HoldsInline(2)
    /\ ast[2].name.type = "JSXNamespacedName"
    /\ Len(reports) = 1

(***************************************************************************)
(* react-node-prop-naming                                                  *)
(*                                                                         *)
(* The host hands the session the functions and the JSX attributes of the  *)
(* file in order.  The rule asks the inference layer about the members of  *)
(* a destructured parameter's type literal and about the destructured      *)
(* identifiers; prop names are sequences of characters.                    *)
(***************************************************************************)

\* Most nodes (functions and JSX attributes) the host hands over in a session.
MaxNamingNodes == 2

\* --- the nodes of the file ---

NamingPropNames == {<<"I", "c", "o", "n">>, <<"i", "c", "o", "n">>, <<"I", "c", "o", "n", "_", "x">>}

\* The declared type of a prop: its annotation, and what the checker resolves it to.
DeclaredTypes ==
    {[annotation |-> Annotation("TSTypeReference", TypeName("React", "ReactNode")),
      resolved |-> T_ReactNode],
     [annotation |-> Annotation("TSTypeReference", TypeName("JSX", "Element")),
      resolved |-> T_JsxElement],
     [annotation |-> Annotation("TSStringKeyword", TypeName(Null, Null)),
      resolved |-> T_string]}

\* { name }, { name = ... } and { name: { ... } } in an object pattern, with the
\* member name: declared of the parameter's type.
DestructuredProps ==
    {[property |->
         [type |-> "Property",
          key |-> [type |-> "Identifier", name |-> n],
          value |-> InferenceNode(v, NullNode, NoAnnotation,
                                  [outcome |-> "resolved", type |-> d.resolved])],
      member |->
         [type |-> "TSPropertySignature",
          key |-> [type |-> "Identifier", name |-> n],
          holder |-> NullNode,
          typeAnnotation |-> d.annotation]] :
        n \in NamingPropNames, d \in DeclaredTypes,
        v \in {"Identifier", "AssignmentPattern"}}

DestructuredLists ==
    {<<p>> : p \in DestructuredProps}
    \cup {<<p, q>> : p \in {x \in DestructuredProps :
                               /\ x.property.key.name = <<"i", "c", "o", "n">>
                               /\ x.property.value.type = "Identifier"},
                     q \in {x \in DestructuredProps :
                               /\ x.property.key.name = <<"I", "c", "o", "n", "_", "x">>
                               /\ x.property.value.type = "Identifier"
                               /\ x.member.typeAnnotation.typeName.left = "React"}}

\* ({ ... }: { ... }) and ({ ... }: Props)
ObjectPatternParam(props, annotated) ==
    [type |-> "ObjectPattern",
     properties |-> [i \in 1..Len(props) |-> props[i].property],
     typeAnnotation |->
        IF annotated = "TSTypeLiteral"
        THEN [type |-> "TSTypeLiteral", members |-> [i \in 1..Len(props) |-> props[i].member]]
        ELSE [type |-> "TSTypeReference", typeName |-> TypeName(Null, "Props")]]

NamingFunctions ==
    {[type |-> "ArrowFunctionExpression", params |-> <<ObjectPatternParam(props, annotated)>>] :
        props \in DestructuredLists, annotated \in {"TSTypeLiteral", "TSTypeReference"}}
    \cup {[type |-> "FunctionDeclaration", params |-> <<>>],
          [type |-> "FunctionExpression", params |-> <<[type |-> "Identifier"]>>]}

NamingAttributes ==
    {[type |-> "JSXAttribute", name |-> n, value |-> v] :
        n \in {[type |-> "JSXIdentifier", name |-> c] : c \in NamingPropNames}
              \cup {[type |-> "JSXNamespacedName", name |-> <<"i", "c", "o", "n">>]},
        v \in {NullNode, [type |-> "Literal"]}
              \cup {[type |-> "JSXExpressionContainer", expression |-> [type |-> t]] :
                       t \in {"JSXElement", "JSXFragment", "Identifier"}}}

NamingNodes == NamingFunctions \cup NamingAttributes

\* --- helpers of the rule ---

LowerCaseLetters == {LowerLetters[i] : i \in 1..26}

startsUpperCase(name) == Len(name) >= 1 /\ name[1] \in UpperCaseLetters

\* /^[A-Z][a-zA-Z0-9]*$/.test(name)
isPascalCase(name) ==
    /\ Len(name) >= 1
    /\ name[1] \in UpperCaseLetters
    /\ \A i \in 2..Len(name) :
          name[i] \in LowerCaseLetters \cup UpperCaseLetters \cup DigitCharacters

toPascalCase(name) ==
    IF Len(name) = 0 THEN name ELSE <<toUpperCase(name[1])>> \o slice(name, 1)

namingReport(anchor, propName) ==
    [node |-> anchor, messageId |-> "reactNodePropNaming",
     data |-> [propName |-> propName, suggestedName |-> toPascalCase(propName)]]

\* The members of the type literal that declare the prop, in order.
membersNamed(typeLiteral, propName) ==
    SelectSeq(typeLiteral.members,
              LAMBDA member : /\ member.type = "TSPropertySignature"
                              /\ member.key.type = "Identifier"
                              /\ member.key.name = propName)

\* One property of a destructured parameter: the reports and caches after it.
\* k is the node's place in the file, p the parameter's, i the property's.
checkProperty(param, k, p, i, service, state) ==
    LET property == param.properties[i]
        propNode == property.value
        typeLiteral == param.typeAnnotation
        declaring == IF typeLiteral.type = "TSTypeLiteral"
                     THEN membersNamed(typeLiteral, property.key.name) ELSE <<>>
        explicit == IF declaring = <<>> THEN Returned(FALSE, state.caches)
                    ELSE hasExplicitReactNodeAnnotation(declaring[1], <<k, p, i, "member">>,
                                                        state.caches)
        inferred == IF explicit.value THEN explicit
                    ELSE isReactNodeType(propNode, <<k, p, i, "value">>, service,
                                         explicit.caches)
    IN IF property.type = "Property" /\ property.key.type = "Identifier"
          /\ propNode.type = "Identifier"
       THEN [reports |-> IF inferred.value /\ ~isPascalCase(property.key.name)
                         THEN Append(state.reports,
                                     namingReport(<<k, p, i, "key">>, property.key.name))
                         ELSE state.reports,
             caches |-> inferred.caches]
       ELSE state

RECURSIVE checkProperties(_, _, _, _, _, _)
checkProperties(param, k, p, i, service, state) ==
    IF i > Len(param.properties) THEN state
    ELSE checkProperties(param, k, p, i + 1, service,
                         checkProperty(param, k, p, i, service, state))

RECURSIVE checkNamingParams(_, _, _, _, _)
checkNamingParams(node, k, p, service, state) ==
    IF p > Len(node.params) THEN state
    ELSE checkNamingParams(node, k, p + 1, service,
            IF node.params[p].type = "ObjectPattern"
            THEN checkProperties(node.params[p], k, p, 1, service, state)
            ELSE state)

\* --- the rule ---

InitNaming ==
    /\ \E n \in 1..MaxNamingNodes : ast \in [1..n -> NamingNodes]
    /\ parserServices \in {"absent", "present"}
    /\ pc = "walk"
    /\ reports = <<>>
    /\ visited = 0
    /\ propsWithJSXValues = {}
    /\ reactNodeTypeCache = <<>>
    /\ reactNodeAnnotationCache = <<>>
    /\ options = Unused
    /\ explicitAnnotationCache = Unused
    /\ typeCheckCache = Unused
    /\ calls = Unused
    /\ multiColorCache = Unused
    /\ SingleSvgIdle
    /\ OcpfIdle /\ JecmIdle
    /\ MemoIdle
    /\ HostIdle /\ FormIdle

NamingOthers ==
    <<ocpfState, jecmState, boolState, multiColorCache, calls, memoState, hostState,
      formState, singleSvgState>>

\* FunctionDeclaration, ArrowFunctionExpression, FunctionExpression.
NamingFunction ==
    /\ pc = "walk"
    /\ visited < Len(ast)
    /\ ast[visited + 1].type \in
          {"FunctionDeclaration", "ArrowFunctionExpression", "FunctionExpression"}
    /\ LET node == ast[visited + 1]
           after == IF Len(node.params) = 0
                    THEN [reports |-> reports, caches |-> currentCaches]
                    ELSE checkNamingParams(node, visited + 1, 1, parserServices,
                                           [reports |-> reports, caches |-> currentCaches])
       IN /\ reports' = after.reports
          /\ reactNodeTypeCache' = after.caches.reactNodeTypeCache
          /\ reactNodeAnnotationCache' = after.caches.reactNodeAnnotationCache
    /\ visited' = visited + 1
    /\ UNCHANGED <<ast, pc, propsWithJSXValues, NamingOthers>>

\* JSXAttribute.
NamingJSXAttribute ==
    /\ pc = "walk"
    /\ visited < Len(ast)
    /\ ast[visited + 1].type = "JSXAttribute"
    /\ LET node == ast[visited + 1]
           propName == getAttributeName(node)
           heard == /\ validateJSXAttributeStructure(node)
                    /\ propName # Null /\ propName # <<>>
                    /\ isJSXElementValue(node)
       IN /\ propsWithJSXValues' = IF heard THEN propsWithJSXValues \cup {propName}
                                   ELSE propsWithJSXValues
          /\ reports' = IF heard /\ ~isPascalCase(propName)
                        THEN Append(reports, namingReport(<<visited + 1, 0, 0, "name">>, propName))
                        ELSE reports
    /\ visited' = visited + 1
    /\ UNCHANGED <<ast, pc, reactNodeTypeCache, reactNodeAnnotationCache, NamingOthers>>

NamingTraversalEnds ==
    /\ pc = "walk"
    /\ visited = Len(ast)
    /\ pc' = "done"
    /\ UNCHANGED <<ast, reports, visited, propsWithJSXValues, reactNodeTypeCache,
                   reactNodeAnnotationCache, NamingOthers>>

NextNaming == NamingFunction \/ NamingJSXAttribute \/ NamingTraversalEnds

SpecNaming == InitNaming /\ [][NextNaming]_vars

\* --- react-node-prop-naming: the claims, stated on the file ---

\* The destructured props of the file as <<k, p, i>>: property i of parameter p of
\* the function at k.
DestructuredAt ==
    {<<k, p, i>> \in (1..Len(ast)) \X (1..1) \X (1..2) :
        /\ ast[k].type \in {"FunctionDeclaration", "ArrowFunctionExpression",
                            "FunctionExpression"}
        /\ p <= Len(ast[k].params)
        /\ ast[k].params[p].type = "ObjectPattern"
        /\ i <= Len(ast[k].params[p].properties)}

PropNameAt(d) == ast[d[1]].params[d[2]].properties[d[3]].key.name

\* The type the parameter's own type literal declares for the prop: "node" for
\* React.ReactNode and JSX.Element, "other" for another type, "unknown" where the
\* parameter is typed by a name.
DeclaredKindAt(d) ==
    LET typeLiteral == ast[d[1]].params[d[2]].typeAnnotation
    IN IF typeLiteral.type # "TSTypeLiteral" THEN "unknown"
       ELSE LET typeName == typeLiteral.members[d[3]].typeAnnotation.typeName
            IN IF <<typeName.left, typeName.name>> \in
                     {<<"React", "ReactNode">>, <<"JSX", "Element">>}
               THEN "node" ELSE "other"

DiagnosticsAtProp(d) ==
    {r \in 1..Len(reports) : reports[r].node = <<d[1], d[2], d[3], "key">>}

DiagnosticsAtAttribute(k) ==
    {r \in 1..Len(reports) : reports[r].node = <<k, 0, 0, "name">>}

ElementValuedAttributes ==
    {k \in 1..Len(ast) :
        /\ ast[k].type = "JSXAttribute"
        /\ ast[k].value.type = "JSXExpressionContainer"
        /\ ast[k].value.expression.type = "JSXElement"}

IsPascalCaseName(name) ==
    /\ name # <<>>
    /\ name[1] \in UpperCaseLetters
    /\ \A i \in 2..Len(name) :
          name[i] \in UpperCaseLetters \cup LowerCaseLetters \cup DigitCharacters

\* C28: once the walk is over, a destructured prop whose declared type is
\* React.ReactNode or JSX.Element, and a JSX attribute whose value is a JSX element
\* literal, each have exactly one reactNodePropNaming diagnostic if the prop name
\* is not PascalCase and none if it is; a destructured prop with another declared
\* type (string) has none.
C28_NodePropsNamedInPascalCase ==
    pc = "done" =>
        /\ \A d \in DestructuredAt :
              /\ DeclaredKindAt(d) = "node" =>
                    Cardinality(DiagnosticsAtProp(d)) =
                        (IF IsPascalCaseName(PropNameAt(d)) THEN 0 ELSE 1)
              /\ DeclaredKindAt(d) = "other" => DiagnosticsAtProp(d) = {}
        /\ \A k \in ElementValuedAttributes :
              Cardinality(DiagnosticsAtAttribute(k)) =
                  (IF IsPascalCaseName(ast[k].name.name) THEN 0 ELSE 1)

\* --- one-component-per-file: the end of the traversal ---

\* The recorded components whose name is not in the compound-child set, by their
\* place in components (visit order).
SurvivingComponents == {i \in 1..Len(components) : components[i].name \notin compoundChildren}

\* The names of the survivors in visit order with ", " between them.
SurvivorsJoined ==
    [j \in 1..(2 * Cardinality(SurvivingComponents) - 1) |->
        IF j % 2 = 1 THEN components[KthOf(SurvivingComponents, (j + 1) \div 2)].name
        ELSE ", "]

\* C29: at traversal end, with more than one surviving component (a recorded
\* component whose name is not in the compound-child set) there is a single
\* diagnostic, anchored at the second survivor in visit order, whose count is the
\* number of survivors and whose componentNames is the survivors' names in visit
\* order joined by ", "; with at most one survivor there is none.
C29_FinalizeReportsSurvivors ==
    pc = "done" =>
        IF Cardinality(SurvivingComponents) > 1
        THEN /\ Len(reports) = 1
             /\ reports[1].messageId = "multipleComponents"
             /\ reports[1].node = components[KthOf(SurvivingComponents, 2)].node
             /\ reports[1].count = Cardinality(SurvivingComponents)
             /\ reports[1].componentNames = SurvivorsJoined
        ELSE reports = <<>>

\* Three recorded components of which the second is a compound child: the
\* diagnostic is anchored at the third recorded one.
C29_Witness ==
    /\ pc = "done"
    /\ Len(components) = 3
    /\ SurvivingComponents = {1, 3}
    /\ Len(reports) = 1
    /\ reports[1].node = components[3].node
    /\ reports[1].node # components[2].node
    /\ Len(reports[1].componentNames) = 3

\* --- jsx-element-component-mismatch: forward references ---

\* The places in the file of the instantiation sites <name P={...} /> that give P a
\* JSX literal or a reference.
InstantiationSites(name, P) ==
    {i \in 1..Len(ast) :
        /\ IsElement(i)
        /\ ast[i].openingElement.name = [type |-> "JSXIdentifier", name |-> name]
        /\ \E k \in 1..Len(ast[i].openingElement.attributes) :
             LET a == ast[i].openingElement.attributes[k]
             IN /\ a.type = "JSXAttribute"
                /\ a.name = [type |-> "JSXIdentifier", name |-> P]
                /\ a.value.type = "JSXExpressionContainer"
                /\ a.value.expression.type \in
                      {"JSXElement", "JSXFragment", "Identifier", "MemberExpression"}}

UsageSites(f, P) == TagUses(f, P) \cup ValueUses(f, P)

\* One instantiation site of f's component giving P one kind of value, and one
\* usage site of P inside f.
OneSiteEach(f, P) ==
    /\ BoundName(f) # Null
    /\ Destructures(f, P)
    /\ Cardinality(InstantiationSites(BoundName(f), P)) = 1
    /\ Cardinality(PassKinds(BoundName(f), P)) = 1
    /\ Cardinality(UsageSites(f, P)) = 1

\* The diagnostics the two sites call for, whatever their order in the file.
ExpectedMessages(f, P) ==
    IF PassKinds(BoundName(f), P) = {"literal"} /\ TagUses(f, P) # {}
    THEN {"jsxElementUsedAsComponent"}
    ELSE IF PassKinds(BoundName(f), P) = {"reference"} /\ ValueUses(f, P) # {}
    THEN {"componentUsedAsValue"}
    ELSE {}

\* C30: no diagnostic exists before the end-of-traversal callback has run; and for
\* a component with one instantiation site and one usage site of prop P, the
\* diagnostics for P at the end are those the kinds of the two sites call for,
\* anchored at the usage site, whether the instantiation site is visited before or
\* after the usage inside the component's function.
C30_ForwardReferencesResolveAtEnd ==
    /\ pc # "done" => reports = <<>>
    /\ pc = "done" =>
          \A f \in FunctionNodes, P \in PropNames :
              OneSiteEach(f, P) =>
                  /\ {reports[k].messageId : k \in ReportsFor(f, P)} = ExpectedMessages(f, P)
                  /\ Cardinality(ReportsFor(f, P)) = Cardinality(ExpectedMessages(f, P))
                  /\ \A k \in ReportsFor(f, P) : reports[k].node \in UsageSites(f, P)

\* <TestProp/> inside the component visited first, the instantiation site that
\* gives TestProp a JSX literal visited after it: reported at the end.
C30_Witness ==
    /\ pc = "done"
    /\ OneSiteEach(FnArrow, "TestProp")
    /\ TagUses(FnArrow, "TestProp") = {[of |-> <<1>>, part |-> "name"]}
    /\ InstantiationSites(BoundName(FnArrow), "TestProp") = {2}
    /\ PassKinds(BoundName(FnArrow), "TestProp") = {"literal"}
    /\ Len(reports) = 1
    /\ reports[1].messageId = "jsxElementUsedAsComponent"

\* The same two sites in the other order, with the same diagnostic.
C30_WitnessInstantiationFirst ==
    /\ pc = "done"
    /\ OneSiteEach(FnArrow, "TestProp")
    /\ TagUses(FnArrow, "TestProp") = {[of |-> <<2>>, part |-> "name"]}
    /\ InstantiationSites(BoundName(FnArrow), "TestProp") = {1}
    /\ PassKinds(BoundName(FnArrow), "TestProp") = {"literal"}
    /\ Len(reports) = 1
    /\ reports[1].messageId = "jsxElementUsedAsComponent"

\* C31: a memoizeExport diagnostic exists only in a file that holds an svg / Svg
\* root element; a file with a default export and no such element has none.
C31_DiagnosticOnlyWithSvgRoot ==
    (\E k \in 1..Len(reports) : reports[k].messageId = "memoizeExport") => SvgRoots # {}

\* The declaration of the export at i is a call memo(...).
IsMemoCall(i) ==
    /\ ast[i].declaration.type = "CallExpression"
    /\ ast[i].declaration.callee.type = "Identifier"
    /\ ast[i].declaration.callee.name = "memo"

\* The declaration of the export at i is an identifier or a function declaration
\* with a name.
HasResolvableName(i) ==
    \/ ast[i].declaration.type = "Identifier"
    \/ ast[i].declaration.type = "FunctionDeclaration" /\ ast[i].declaration.name # Null

\* C32: no default export gets a memoizeExport diagnostic unless its declaration
\* is not a memo(...) call and has a resolvable name, and by the end of the
\* traversal every such export has one; memo(...) exports and anonymous arrow or
\* function expressions have none.
C32_ReportedIffNamedAndNotMemoized ==
    \A e \in DefaultExports :
        /\ MemoizeExportAt(e) # {} => ~IsMemoCall(e) /\ HasResolvableName(e)
        /\ pc = "done" =>
              (MemoizeExportAt(e) # {} <=> ~IsMemoCall(e) /\ HasResolvableName(e))
        /\ (\/ IsMemoCall(e)
            \/ ast[e].declaration.type \in {"ArrowFunctionExpression", "FunctionExpression"})
           => reports = <<>>

C32_Witness ==
    /\ pc = "done"
    /\ \E e \in DefaultExports :
          /\ ast[e].declaration.type = "FunctionDeclaration"
          /\ ast[e].declaration.name # Null
          /\ MemoizeExportAt(e) # {}

\* The name of the type is one of the UI-node aliases, letter for letter.
NamesUiNodeAlias(type) ==
    \/ type.symbol = "ReactNode"
    \/ type.text \in {T_ReactNodeText, T_JsxElementText, T_ReactReactNodeText}

\* The type is such an alias, or a union / intersection with such a member.
RECURSIVE ContainsUiNodeAlias(_)
ContainsUiNodeAlias(type) ==
    \/ NamesUiNodeAlias(type)
    \/ /\ type.kind \in {"union", "intersection"}
       /\ \E k \in 1..Len(type.types) : ContainsUiNodeAlias(type.types[k])

\* C33: when the service resolves the type of the node, isReactNodeType is true
\* exactly if the name of that type is a UI-node alias or the type is a union or
\* intersection that contains one; a name that only contains an alias as a part,
\* and an unrelated type, give false.
C33_CheckerMatchesAliasNamesOnly ==
    (/\ parserServices = "present"
     /\ ast[1].resolved.outcome = "resolved")
    => \A i \in CallsOf("isReactNodeType") :
          calls[i].value = ContainsUiNodeAlias(ast[1].resolved.type)

\* Where a usage node lies in visit order: the element or container visited i-th,
\* then the values of its attributes from left to right.
VisitRank(u) == u.of[1] * (MaxJsxNodes + 2) + (IF Len(u.of) > 1 THEN u.of[2] ELSE 0)

LastVisitedUse(f, P) ==
    CHOOSE u \in UsageSites(f, P) : \A v \in UsageSites(f, P) : VisitRank(v) <= VisitRank(u)

\* The kind of value the attribute gives: a JSX element or fragment ("jsx"), an
\* identifier or member path ("component"), or neither (Null).
KindGiven(a, P) ==
    IF /\ a.type = "JSXAttribute"
       /\ a.name = [type |-> "JSXIdentifier", name |-> P]
       /\ a.value.type = "JSXExpressionContainer"
    THEN (IF a.value.expression.type \in {"JSXElement", "JSXFragment"} THEN "jsx"
          ELSE IF a.value.expression.type \in {"Identifier", "MemberExpression"}
          THEN "component" ELSE Null)
    ELSE Null

\* The kind given to P by the last attribute of the last instantiation site of name
\* that gives it one.
LastPassedKind(name, P) ==
    LET i == CHOOSE j \in InstantiationSites(name, P) :
                 \A h \in InstantiationSites(name, P) : h <= j
        attrs == ast[i].openingElement.attributes
        given == {k \in 1..Len(attrs) : KindGiven(attrs[k], P) # Null}
    IN KindGiven(attrs[CHOOSE k \in given : \A h \in given : h <= k], P)

\* The diagnostic the last passed kind and the last usage call for, if any.
LastPairMessages(f, P) ==
    IF \/ BoundName(f) = Null
       \/ ~Destructures(f, P)
       \/ UsageSites(f, P) = {}
       \/ InstantiationSites(BoundName(f), P) = {}
    THEN {}
    ELSE LET kind == LastPassedKind(BoundName(f), P)
             use == LastVisitedUse(f, P)
         IN IF kind = "jsx" /\ use.part = "name"
            THEN {[node |-> use, messageId |-> "jsxElementUsedAsComponent", propName |-> P]}
            ELSE IF kind = "component" /\ use.part = "expression"
            THEN {[node |-> use, messageId |-> "componentUsedAsValue", propName |-> P]}
            ELSE {}

\* C34: nothing is reported before the end of the traversal, and at its end each
\* (component function, prop) pair has at most one diagnostic: the one the last
\* visited usage of the prop inside the function and the last visited kind passed to
\* the component's name call for, whatever earlier usages and instantiations said.
C34_LastVisitWinsOncePerProp ==
    /\ pc # "done" => reports = <<>>
    /\ pc = "done" =>
          \A f \in FunctionNodes, P \in PropNames :
              /\ Cardinality(ReportsFor(f, P)) <= 1
              /\ {reports[k] : k \in ReportsFor(f, P)} = LastPairMessages(f, P)

\* <TestComponent TestProp={<Icon/>} />, then {TestProp} and after it <TestProp/> in
\* the component: the later tag usage is the one reported.
C34_Witness ==
    /\ pc = "done"
    /\ PassKinds("TestComponent", "TestProp") = {"literal"}
    /\ ValueUses(FnArrow, "TestProp") = {[of |-> <<2>>, part |-> "expression"]}
    /\ TagUses(FnArrow, "TestProp") = {[of |-> <<3>>, part |-> "name"]}
    /\ reports = <<[node |-> [of |-> <<3>>, part |-> "name"],
                    messageId |-> "jsxElementUsedAsComponent", propName |-> "TestProp"]>>

\* <TestComponent TestProp={Icon} /> after <TestComponent TestProp={<Icon/>} />: the
\* later kind is the one compared with {TestProp}.
C34_WitnessPassedKindOverwritten ==
    /\ pc = "done"
    /\ PassKinds("TestComponent", "TestProp") = {"literal", "reference"}
    /\ LastPassedKind("TestComponent", "TestProp") = "component"
    /\ ValueUses(FnArrow, "TestProp") # {}
    /\ Len(reports) = 1
    /\ reports[1].messageId = "componentUsedAsValue"

\* C35: within one traversal no fill / stroke attribute node is reported twice,
\* nested svg elements included.
C35_AttributeReportedAtMostOnce ==
    \A k, l \in 1..Len(reports) : reports[k].node = reports[l].node => k = l

\* The assignment visited j-th has a member target Identifier.Identifier and an
\* identifier on its right.
AttachesByShape(j) ==
    /\ ast[j].type = "AssignmentExpression"
    /\ ast[j].left.type = "MemberExpression"
    /\ ast[j].left.object = "Identifier"
    /\ ast[j].left.property = "Identifier"
    /\ ast[j].right # Null

\* The qualifying declarations whose name no such assignment of the file names.
CountedDecls ==
    {i \in QualifyingDecls :
        \A j \in 1..Len(ast) : AttachesByShape(j) => ast[j].right # DeclName(i)}

\* C36: the compound-child set never loses a name in a step, it holds exactly the
\* right-hand names of the assignments Identifier.Identifier = Identifier visited
\* so far, and at the end every declaration with such a name, however many there
\* are, is left out of the count and of the names of the diagnostic.
C36_ExemptionByNameOnly ==
    [][/\ compoundChildren \subseteq compoundChildren'
       /\ compoundChildren' = {ast'[j].right : j \in {h \in 1..Len(ast') : AttachesByShape(h)'}}
       /\ pc' = "done" =>
             /\ (reports' # <<>>) = (Cardinality(CountedDecls') > 1)
             /\ \A k \in 1..Len(reports') :
                   /\ reports'[k].count = Cardinality(CountedDecls')
                   /\ \A j \in 1..Len(ast') :
                         AttachesByShape(j)' =>
                            ast'[j].right \notin Range(reports'[k].componentNames)]_vars

\* One assignment naming Sub, one Main and two declarations named Sub: both Sub
\* declarations are left out and nothing is reported.
C36_Witness ==
    /\ pc = "done"
    /\ Len(ast) = 4
    /\ compoundChildren = {"Sub"}
    /\ Cardinality({i \in QualifyingDecls : DeclName(i) = "Sub"}) = 2
    /\ Cardinality({i \in QualifyingDecls : DeclName(i) = "Main"}) = 1
    /\ reports = <<>>

(***************************************************************************)
(* single-svg-per-file                                                     *)
(***************************************************************************)

\* Most JSX elements the host hands over in one single-svg-per-file session.
MaxSvgNodes == 3

\* The JSX elements of the file: <svg>, <Svg>, <path> and <a.b>.
SingleSvgNodes == MemoJsxNodes

\* A slip that reports from the first svg on.
onSingleSvgElementFromFirst(count, node, id) ==
    IF ~validateJSXElement(node) THEN [svgCount |-> count, reports |-> <<>>]
    ELSE IF /\ node.openingElement.name.type = "JSXIdentifier"
            /\ node.openingElement.name.name = "svg"
    THEN [svgCount |-> count + 1,
          reports |-> <<[node |-> id, messageId |-> "multipleSvgs", count |-> count + 1]>>]
    ELSE [svgCount |-> count, reports |-> <<>>]

\* Body of the JSXElement callback: the counter after it and the reports it makes.
onSingleSvgElement(count, node, id) ==
    IF ~validateJSXElement(node) THEN [svgCount |-> count, reports |-> <<>>]
    ELSE IF /\ node.openingElement.name.type = "JSXIdentifier"
            /\ node.openingElement.name.name = "svg"
    THEN [svgCount |-> count + 1,
          reports |-> IF count + 1 > 1
                      THEN <<[node |-> id, messageId |-> "multipleSvgs", count |-> count + 1]>>
                      ELSE <<>>]
    ELSE [svgCount |-> count, reports |-> <<>>]

InitSingleSvg ==
    /\ ast = <<>>
    /\ pc = "walk"
    /\ reports = <<>>
    /\ svgCount = 0
    /\ OcpfIdle /\ JecmIdle /\ SvgIdle /\ BoolIdle /\ InferIdle /\ MemoIdle
    /\ HostIdle /\ FormIdle /\ NamingIdle

SingleSvgOthers ==
    <<ocpfState, jecmState, svgState, boolState, inferState, memoState, hostState,
      formState, namingState>>

SingleSvgJSXElement ==
    /\ pc = "walk"
    /\ Len(ast) < MaxSvgNodes
    /\ \E node \in SingleSvgNodes :
          LET after == onSingleSvgElement(svgCount, node, Len(ast) + 1)
          IN /\ ast' = Append(ast, node)
             /\ svgCount' = after.svgCount
             /\ reports' = reports \o after.reports
    /\ UNCHANGED <<pc, SingleSvgOthers>>

SingleSvgProgramExit ==
    /\ pc = "walk"
    /\ pc' = "done"
    /\ svgCount' = 0
    /\ UNCHANGED <<ast, reports, SingleSvgOthers>>

NextSingleSvg ==
    \/ SingleSvgJSXElement
    \/ SingleSvgProgramExit

SpecSingleSvg == InitSingleSvg /\ [][NextSingleSvg]_vars

\* ---- the claims, stated on the visited file ----

\* Positions (in visit order) of the elements named svg.
SvgElements ==
    {i \in 1..Len(ast) :
        ast[i].openingElement.name = [type |-> "JSXIdentifier", name |-> "svg"]}

\* How many svg elements are visited up to and including position i.
SvgRank(i) == Cardinality({j \in SvgElements : j <= i})

RECURSIVE StripsToConditional(_)
StripsToConditional(node) ==
    IF node.type \in {"TSAsExpression", "TSTypeAssertion"}
    THEN StripsToConditional(node.expression)
    ELSE node.type = "ConditionalExpression"

NestsInBranch(node) ==
    StripsToConditional(node.consequent) \/ StripsToConditional(node.alternate)

\* The number of conditionals of a chain c1 ? x : c2 ? y : ... (each conditional
\* holds the next one directly as one branch, a literal as the other and an
\* identifier as test); 0 for any other expression.
RECURSIVE ChainLength(_)
ChainLength(node) ==
    IF node.type # "ConditionalExpression" \/ node.test.type # "Identifier" THEN 0
    ELSE IF node.consequent.type = "Literal" /\ node.alternate.type = "Literal" THEN 1
    ELSE IF node.consequent.type = "Literal" /\ ChainLength(node.alternate) > 0
    THEN 1 + ChainLength(node.alternate)
    ELSE IF node.alternate.type = "Literal" /\ ChainLength(node.consequent) > 0
    THEN 1 + ChainLength(node.consequent)
    ELSE 0

\* C38: once the walk is over, a conditional has a diagnostic (exactly one) if and
\* only if its consequent or alternate is a conditional under any number of as-casts
\* and type assertions; conditionals in its test or inside a call in a branch do not
\* count; a chain of d directly nested conditionals has d - 1 diagnostics in all.
C38_ReportedIffBranchStripsToConditional ==
    pc = "done" =>
        /\ \A q \in ConditionalPaths :
              Cardinality(DiagnosticsAtConditional(q)) =
                 (IF NestsInBranch(NodeAt(ast[1], q)) THEN 1 ELSE 0)
        /\ Len(reports) =
              Cardinality({q \in ConditionalPaths : NestsInBranch(NodeAt(ast[1], q))})
        /\ ChainLength(ast[1]) > 0 => Len(reports) = ChainLength(ast[1]) - 1

\* c1 ? x : <T>((c2 ? y : z) as U): a conditional under a type assertion and an
\* as-cast in the alternate is reported at the outer conditional.
C38_Witness ==
    /\ pc = "done"
    /\ ast[1].type = "ConditionalExpression"
    /\ ast[1].consequent.type = "Literal"
    /\ ast[1].alternate.type = "TSTypeAssertion"
    /\ ast[1].alternate.expression.type = "TSAsExpression"
    /\ ast[1].alternate.expression.expression.type = "ConditionalExpression"
    /\ reports = <<[node |-> <<>>, messageId |-> "noNestedTernary"]>>

\* c1 ? x : c2 ? y : c3 ? z : w : three conditionals, two diagnostics.
C38_WitnessChain ==
    /\ pc = "done"
    /\ ChainLength(ast[1]) = 3
    /\ Len(reports) = 2

\* (c0 ? a : b) ? f(c1 ? x : y) : z : conditionals in the test and inside a call
\* only, no diagnostic.
C38_WitnessTestAndCall ==
    /\ pc = "done"
    /\ ast[1].type = "ConditionalExpression"
    /\ ast[1].test.type = "ConditionalExpression"
    /\ ast[1].consequent.type = "CallExpression"
    /\ ast[1].consequent.expression.type = "ConditionalExpression"
    /\ reports = <<>>

\* The local names bound by the import declarations at positions S of the file.
NamesBoundAt(S) ==
    {ast[j].specifiers[s].local.name :
        <<j, s>> \in {<<j, s>> \in S \X (1..1) :
                          /\ ast[j].type = "ImportDeclaration"
                          /\ s <= Len(ast[j].specifiers)
                          /\ ast[j].specifiers[s].type \in
                                {"ImportSpecifier", "ImportDefaultSpecifier"}}}

ImportedKeys == {imports[i].key : i \in 1..Len(imports)}

\* The names bound by the import declarations visited so far.
NamesBoundSoFar == NamesBoundAt(1..visited)

\* The form-hook call at k names a root that only a later import declaration binds.
ImportedLater(k) ==
    /\ ReferenceCall(k)
    /\ RootName(ast[k].arguments[1]) \in NamesBoundAt((k + 1)..Len(ast))
    /\ RootName(ast[k].arguments[1]) \notin NamesBoundAt(1..(k - 1))

\* C39: no step takes a name out of the imports map, the map holds exactly the
\* names bound by the import declarations visited so far, and a form-hook call
\* whose configuration name is bound by an import declaration that comes after the
\* call has no diagnostic, then and at the end of the traversal, whatever that
\* import looks like.
C39_OnlyEarlierImportsAreChecked ==
    [][/\ ImportedKeys \subseteq ImportedKeys'
       /\ Len(imports) <= Len(imports')
       /\ ImportedKeys' = NamesBoundSoFar'
       /\ \A k \in FormCalls' : ImportedLater(k)' => DiagnosticsOfCall(k)' = {}]_vars

\* useForm(formConfig) visited first, then the import of formConfig from a file
\* that is no -constants file: both conventions are broken, nothing is reported.
C39_Witness ==
    /\ pc = "done"
    /\ Len(ast) = 2
    /\ ImportedLater(1)
    /\ ast[1].arguments[1].type = "Identifier"
    /\ ~IsUpperSnakeCase(RootName(ast[1].arguments[1]))
    /\ ~IsConstantsSource(ast[2].source.value)
    /\ ImportedKeys = {RootName(ast[1].arguments[1])}
    /\ reports = <<>>

\* C40: in every reactNodePropNaming diagnostic the suggested name is PascalCase
\* by the rule's own test and is another name than the reported one.
C40_SuggestionIsPascalCaseAndNew ==
    \A r \in 1..Len(reports) :
        reports[r].messageId = "reactNodePropNaming" =>
            /\ IsPascalCaseName(reports[r].data.suggestedName)
            /\ reports[r].data.suggestedName # reports[r].data.propName

====
